---- MODULE Spec2Model ----
(***************************************************************************)
(* A model of compare_catalogs.py: the record loader (load_csv), the       *)
(* attribute codec (parse_additional_attributes,                           *)
(* diff_additional_attributes), the catalog differ (compare_catalogs) and  *)
(* the report writer (write_report).                                       *)
(*                                                                         *)
(* Text is a sequence of characters.  A printable ASCII character, tab,    *)
(* line feed, form feed and carriage return are the one-character strings; *)
(* every other code point is one symbol "U+XXXX" (its number in upper-case *)
(* hexadecimal, four digits or more), and so is the grave accent, U+0060,  *)
(* which a string of this language cannot hold.  Python's None is the      *)
(* value None below, a Python list of cells is List(cells).  A Python dict *)
(* is a sequence of <<key, value>> pairs with distinct keys, in insertion  *)
(* order.                                                                  *)
(***************************************************************************)
EXTENDS Integers, Sequences, FiniteSets, TLC

VARIABLES
    pc,             \* position in the run
    content,        \* load_csv: the text read from the file
    delimiter,      \* load_csv: csv_delimiter
    data,           \* load_csv: the Catalog returned
    stg_val,        \* diff_additional_attributes: staging free-text value
    prod_val,       \* diff_additional_attributes: production free-text value
    exclude_attrs,  \* exclude_additional_attributes
    subdiffs,       \* diff_additional_attributes: the dict returned
    master_file,    \* main: the text of the staging document
    comparison_file, \* main: the text of the production document
    staging,        \* main: the Catalog load_csv returns for master_file
    production,     \* main: the Catalog load_csv returns for comparison_file
    key_field,      \* main: key_field, the name of the key column
    ignore_fields,  \* compare_catalogs: exclude_columns
    html_fields,    \* write_report: html_fields
    output_file,    \* write_report: the path of the report
    diffs,          \* compare_catalogs: the list returned
    report,         \* write_report: the file written (or not)
    written         \* the records the document of load_csv was written from

vars == <<pc, content, delimiter, data, stg_val, prod_val, exclude_attrs,
          subdiffs, master_file, comparison_file, staging, production,
          key_field, ignore_fields, html_fields, output_file, diffs, report,
          written>>

(***************************************************************************)
(* Bounds of the model.                                                    *)
(***************************************************************************)
MaxPairs == 2       \* sub-attribute pairs in one free-text value
MaxKeys == 2        \* records in one catalog (compare_catalogs)
MaxRows == 2        \* data rows in one document (load_csv)
MaxValLen == 2      \* characters in one free-text value of a document

(***************************************************************************)
(* Python values and built-ins.                                            *)
(***************************************************************************)
None == <<"None">>

Truthy(v) == v # None /\ v # <<>>

OrEmpty(v) == IF Truthy(v) THEN v ELSE <<>>

\* a list, as csv.DictReader stores the surplus cells of a long row
List(cells) == <<"list", cells>>

IsList(v) == v # <<>> /\ Head(v) = "list"

\* the characters str.isspace() holds for: those str.strip() removes
WHITESPACE ==
    {"\t", "\n", "U+000B", "\f", "\r", "U+001C", "U+001D", "U+001E", "U+001F",
    " ", "U+0085", "U+00A0", "U+1680", "U+2000", "U+2001", "U+2002",
    "U+2003", "U+2004", "U+2005", "U+2006", "U+2007", "U+2008", "U+2009",
    "U+200A", "U+2028", "U+2029", "U+202F", "U+205F", "U+3000"}

\* a call that returns v, and a call that raises the exception named error
Ok(v) == [error |-> "", value |-> v]

Raise(error) == [error |-> error, value |-> <<>>]

\* two parts of a loop, one after the other: the first exception ends it
Concat(a, b) ==
    IF a.error # "" THEN a
    ELSE IF b.error # "" THEN b
    ELSE Ok(a.value \o b.value)

Drop(s, n) == SubSeq(s, n + 1, Len(s))

Reverse(s) == [i \in 1..Len(s) |-> s[Len(s) + 1 - i]]

\* the number of characters of s before its first character outside S
Span(s, S) ==
    LET out == {i \in 1..Len(s) : s[i] \notin S}
    IN  IF out = {} THEN Len(s)
        ELSE (CHOOSE i \in out : \A j \in out : i <= j) - 1

lstrip(s) == Drop(s, Span(s, WHITESPACE))

rstrip(s) == SubSeq(s, 1, Len(s) - Span(Reverse(s), WHITESPACE))

strip(s) == rstrip(lstrip(s))

startswith(s, p) == Len(p) <= Len(s) /\ SubSeq(s, 1, Len(p)) = p

endswith(s, p) == Len(p) <= Len(s) /\ SubSeq(s, Len(s) - Len(p) + 1, Len(s)) = p

Contains(s, c) == \E i \in 1..Len(s) : s[i] = c

\* the number of characters of s before its first character in stop
Run(s, stop) ==
    LET hits == {i \in 1..Len(s) : s[i] \in stop}
    IN  IF hits = {} THEN Len(s)
        ELSE (CHOOSE i \in hits : \A j \in hits : i <= j) - 1

\* str.find(sub) + 1, sub non-empty: the place of the first sub in s, or 0
Find(s, sub) ==
    LET hits == {i \in 1..(Len(s) - Len(sub) + 1) :
                    SubSeq(s, i, i + Len(sub) - 1) = sub}
    IN  IF hits = {} THEN 0 ELSE CHOOSE i \in hits : \A j \in hits : i <= j

\* str.split(sep), sep non-empty
RECURSIVE split(_, _)
split(s, sep) ==
    LET i == Find(s, sep)
    IN  IF i = 0 THEN <<s>>
        ELSE <<SubSeq(s, 1, i - 1)>> \o split(Drop(s, i - 1 + Len(sep)), sep)

\* str.replace(old, new), old non-empty: left to right, non-overlapping.
RECURSIVE replace(_, _, _)
replace(s, old, new) ==
    LET i == Find(s, old)
    IN  IF i = 0 THEN s
        ELSE SubSeq(s, 1, i - 1) \o new
             \o replace(Drop(s, i - 1 + Len(old)), old, new)

\* sep.join(parts)
RECURSIVE join(_, _)
join(sep, parts) ==
    IF parts = <<>> THEN <<>>
    ELSE IF Len(parts) = 1 THEN parts[1]
    ELSE parts[1] \o sep \o join(sep, Tail(parts))

\* dict operations, insertion-ordered
DictHas(d, k) == \E i \in 1..Len(d) : d[i][1] = k

DictGet(d, k, default) ==
    IF DictHas(d, k) THEN d[CHOOSE i \in 1..Len(d) : d[i][1] = k][2] ELSE default

DictSet(d, k, v) ==
    IF DictHas(d, k)
    THEN [i \in 1..Len(d) |-> IF d[i][1] = k THEN <<k, v>> ELSE d[i]]
    ELSE Append(d, <<k, v>>)

DictKeys(d) == [i \in 1..Len(d) |-> d[i][1]]

(***************************************************************************)
(* Attribute codec.                                                        *)
(***************************************************************************)
QUOT == <<"&", "q", "u", "o", "t", ";">>

\* the characters of a text put together as one string
RECURSIVE Str(_)
Str(s) == IF s = <<>> THEN "" ELSE Head(s) \o Str(Tail(s))

HexUpper ==
    <<"0", "1", "2", "3", "4", "5", "6", "7", "8", "9",
      "A", "B", "C", "D", "E", "F">>

HexLower ==
    <<"0", "1", "2", "3", "4", "5", "6", "7", "8", "9",
      "a", "b", "c", "d", "e", "f">>

HexValue(ch) == (CHOOSE i \in 1..16 : HexUpper[i] = ch \/ HexLower[i] = ch) - 1

\* sys.get_int_max_str_digits(): the longest decimal string int() converts
int_max_str_digits == 4300

\* the number written with the digits, most significant first
RECURSIVE Digits(_, _, _)
Digits(digits, base, acc) ==
    IF digits = <<>> THEN acc
    ELSE Digits(Tail(digits), base, acc * base + HexValue(Head(digits)))

\* int(digits, base), base 10 or 16: ValueError for more than
\* int_max_str_digits decimal digits, leading zeros counted.  A number of
\* more than 7 digits after the leading zeros is above 0x10FFFF, and every
\* number above 0x10FFFF is replaced the same way: it is given as 0x110000.
\* IntValue is the number written with the digits that follow the zeros.
IntValue(significant, base) ==
    IF Len(significant) > 7 THEN 1114112 ELSE Digits(significant, base, 0)

ParseInt(digits, base) ==
    IF base = 10 /\ Len(digits) > int_max_str_digits THEN Raise("ValueError")
    ELSE Ok(IntValue(Drop(digits, Span(digits, {"0"})), base))

\* the characters of the code points 32..126
PRINTABLE ==
    <<" ", "!", "\"", "#", "$", "%", "&", "'", "(", ")", "*", "+", ",", "-",
    ".", "/", "0", "1", "2", "3", "4", "5", "6", "7", "8", "9", ":", ";",
    "<", "=", ">", "?", "@", "A", "B", "C", "D", "E", "F", "G", "H", "I",
    "J", "K", "L", "M", "N", "O", "P", "Q", "R", "S", "T", "U", "V", "W",
    "X", "Y", "Z", "[", "\\", "]", "^", "_", "U+0060", "a", "b", "c", "d",
    "e", "f", "g", "h", "i", "j", "k", "l", "m", "n", "o", "p", "q", "r",
    "s", "t", "u", "v", "w", "x", "y", "z", "{", "|", "}", "~">>

RECURSIVE HexString(_)
HexString(n) ==
    IF n < 16 THEN HexUpper[n + 1]
    ELSE HexString(n \div 16) \o HexUpper[(n % 16) + 1]

\* chr(n), as a character of a text
chr(n) ==
    IF 32 <= n /\ n <= 126 THEN PRINTABLE[n - 31]
    ELSE IF n = 9 THEN "\t"
    ELSE IF n = 10 THEN "\n"
    ELSE IF n = 12 THEN "\f"
    ELSE IF n = 13 THEN "\r"
    ELSE "U+" \o (IF n < 16 THEN "000" ELSE IF n < 256 THEN "00"
                  ELSE IF n < 4096 THEN "0" ELSE "") \o HexString(n)

\* html._invalid_charrefs
invalid_charrefs ==
    <<<<0, <<"U+FFFD">>>>, <<13, <<"\r">>>>, <<128, <<"U+20AC">>>>,
    <<129, <<"U+0081">>>>, <<130, <<"U+201A">>>>, <<131, <<"U+0192">>>>,
    <<132, <<"U+201E">>>>, <<133, <<"U+2026">>>>, <<134, <<"U+2020">>>>,
    <<135, <<"U+2021">>>>, <<136, <<"U+02C6">>>>, <<137, <<"U+2030">>>>,
    <<138, <<"U+0160">>>>, <<139, <<"U+2039">>>>, <<140, <<"U+0152">>>>,
    <<141, <<"U+008D">>>>, <<142, <<"U+017D">>>>, <<143, <<"U+008F">>>>,
    <<144, <<"U+0090">>>>, <<145, <<"U+2018">>>>, <<146, <<"U+2019">>>>,
    <<147, <<"U+201C">>>>, <<148, <<"U+201D">>>>, <<149, <<"U+2022">>>>,
    <<150, <<"U+2013">>>>, <<151, <<"U+2014">>>>, <<152, <<"U+02DC">>>>,
    <<153, <<"U+2122">>>>, <<154, <<"U+0161">>>>, <<155, <<"U+203A">>>>,
    <<156, <<"U+0153">>>>, <<157, <<"U+009D">>>>, <<158, <<"U+017E">>>>,
    <<159, <<"U+0178">>>>>>

\* html._invalid_codepoints
invalid_codepoints ==
    (1..8) \cup (14..31) \cup (127..159) \cup (64976..65007) \cup {11}
    \cup {65534 + 65536 * k : k \in 0..16}
    \cup {65535 + 65536 * k : k \in 0..16}

\* html.entities.html5: entity name (a string) to its text
html5 ==
    <<<<"Aacute", <<"U+00C1">>>>, <<"aacute", <<"U+00E1">>>>,
    <<"Aacute;", <<"U+00C1">>>>, <<"aacute;", <<"U+00E1">>>>,
    <<"Abreve;", <<"U+0102">>>>, <<"abreve;", <<"U+0103">>>>,
    <<"ac;", <<"U+223E">>>>, <<"acd;", <<"U+223F">>>>,
    <<"acE;", <<"U+223E", "U+0333">>>>, <<"Acirc", <<"U+00C2">>>>,
    <<"acirc", <<"U+00E2">>>>, <<"Acirc;", <<"U+00C2">>>>,
    <<"acirc;", <<"U+00E2">>>>, <<"acute", <<"U+00B4">>>>,
    <<"acute;", <<"U+00B4">>>>, <<"Acy;", <<"U+0410">>>>,
    <<"acy;", <<"U+0430">>>>, <<"AElig", <<"U+00C6">>>>,
    <<"aelig", <<"U+00E6">>>>, <<"AElig;", <<"U+00C6">>>>,
    <<"aelig;", <<"U+00E6">>>>, <<"af;", <<"U+2061">>>>,
    <<"Afr;", <<"U+1D504">>>>, <<"afr;", <<"U+1D51E">>>>,
    <<"Agrave", <<"U+00C0">>>>, <<"agrave", <<"U+00E0">>>>,
    <<"Agrave;", <<"U+00C0">>>>, <<"agrave;", <<"U+00E0">>>>,
    <<"alefsym;", <<"U+2135">>>>, <<"aleph;", <<"U+2135">>>>,
    <<"Alpha;", <<"U+0391">>>>, <<"alpha;", <<"U+03B1">>>>,
    <<"Amacr;", <<"U+0100">>>>, <<"amacr;", <<"U+0101">>>>,
    <<"amalg;", <<"U+2A3F">>>>, <<"AMP", <<"&">>>>, <<"amp", <<"&">>>>,
    <<"AMP;", <<"&">>>>, <<"amp;", <<"&">>>>, <<"And;", <<"U+2A53">>>>,
    <<"and;", <<"U+2227">>>>, <<"andand;", <<"U+2A55">>>>,
    <<"andd;", <<"U+2A5C">>>>, <<"andslope;", <<"U+2A58">>>>,
    <<"andv;", <<"U+2A5A">>>>, <<"ang;", <<"U+2220">>>>,
    <<"ange;", <<"U+29A4">>>>, <<"angle;", <<"U+2220">>>>,
    <<"angmsd;", <<"U+2221">>>>, <<"angmsdaa;", <<"U+29A8">>>>,
    <<"angmsdab;", <<"U+29A9">>>>, <<"angmsdac;", <<"U+29AA">>>>,
    <<"angmsdad;", <<"U+29AB">>>>, <<"angmsdae;", <<"U+29AC">>>>,
    <<"angmsdaf;", <<"U+29AD">>>>, <<"angmsdag;", <<"U+29AE">>>>,
    <<"angmsdah;", <<"U+29AF">>>>, <<"angrt;", <<"U+221F">>>>,
    <<"angrtvb;", <<"U+22BE">>>>, <<"angrtvbd;", <<"U+299D">>>>,
    <<"angsph;", <<"U+2222">>>>, <<"angst;", <<"U+00C5">>>>,
    <<"angzarr;", <<"U+237C">>>>, <<"Aogon;", <<"U+0104">>>>,
    <<"aogon;", <<"U+0105">>>>, <<"Aopf;", <<"U+1D538">>>>,
    <<"aopf;", <<"U+1D552">>>>, <<"ap;", <<"U+2248">>>>,
    <<"apacir;", <<"U+2A6F">>>>, <<"apE;", <<"U+2A70">>>>,
    <<"ape;", <<"U+224A">>>>, <<"apid;", <<"U+224B">>>>,
    <<"apos;", <<"'">>>>, <<"ApplyFunction;", <<"U+2061">>>>,
    <<"approx;", <<"U+2248">>>>, <<"approxeq;", <<"U+224A">>>>,
    <<"Aring", <<"U+00C5">>>>, <<"aring", <<"U+00E5">>>>,
    <<"Aring;", <<"U+00C5">>>>, <<"aring;", <<"U+00E5">>>>,
    <<"Ascr;", <<"U+1D49C">>>>, <<"ascr;", <<"U+1D4B6">>>>,
    <<"Assign;", <<"U+2254">>>>, <<"ast;", <<"*">>>>,
    <<"asymp;", <<"U+2248">>>>, <<"asympeq;", <<"U+224D">>>>,
    <<"Atilde", <<"U+00C3">>>>, <<"atilde", <<"U+00E3">>>>,
    <<"Atilde;", <<"U+00C3">>>>, <<"atilde;", <<"U+00E3">>>>,
    <<"Auml", <<"U+00C4">>>>, <<"auml", <<"U+00E4">>>>,
    <<"Auml;", <<"U+00C4">>>>, <<"auml;", <<"U+00E4">>>>,
    <<"awconint;", <<"U+2233">>>>, <<"awint;", <<"U+2A11">>>>,
    <<"backcong;", <<"U+224C">>>>, <<"backepsilon;", <<"U+03F6">>>>,
    <<"backprime;", <<"U+2035">>>>, <<"backsim;", <<"U+223D">>>>,
    <<"backsimeq;", <<"U+22CD">>>>, <<"Backslash;", <<"U+2216">>>>,
    <<"Barv;", <<"U+2AE7">>>>, <<"barvee;", <<"U+22BD">>>>,
    <<"Barwed;", <<"U+2306">>>>, <<"barwed;", <<"U+2305">>>>,
    <<"barwedge;", <<"U+2305">>>>, <<"bbrk;", <<"U+23B5">>>>,
    <<"bbrktbrk;", <<"U+23B6">>>>, <<"bcong;", <<"U+224C">>>>,
    <<"Bcy;", <<"U+0411">>>>, <<"bcy;", <<"U+0431">>>>,
    <<"bdquo;", <<"U+201E">>>>, <<"becaus;", <<"U+2235">>>>,
    <<"Because;", <<"U+2235">>>>, <<"because;", <<"U+2235">>>>,
    <<"bemptyv;", <<"U+29B0">>>>, <<"bepsi;", <<"U+03F6">>>>,
    <<"bernou;", <<"U+212C">>>>, <<"Bernoullis;", <<"U+212C">>>>,
    <<"Beta;", <<"U+0392">>>>, <<"beta;", <<"U+03B2">>>>,
    <<"beth;", <<"U+2136">>>>, <<"between;", <<"U+226C">>>>,
    <<"Bfr;", <<"U+1D505">>>>, <<"bfr;", <<"U+1D51F">>>>,
    <<"bigcap;", <<"U+22C2">>>>, <<"bigcirc;", <<"U+25EF">>>>,
    <<"bigcup;", <<"U+22C3">>>>, <<"bigodot;", <<"U+2A00">>>>,
    <<"bigoplus;", <<"U+2A01">>>>, <<"bigotimes;", <<"U+2A02">>>>,
    <<"bigsqcup;", <<"U+2A06">>>>, <<"bigstar;", <<"U+2605">>>>,
    <<"bigtriangledown;", <<"U+25BD">>>>, <<"bigtriangleup;", <<"U+25B3">>>>,
    <<"biguplus;", <<"U+2A04">>>>, <<"bigvee;", <<"U+22C1">>>>,
    <<"bigwedge;", <<"U+22C0">>>>, <<"bkarow;", <<"U+290D">>>>,
    <<"blacklozenge;", <<"U+29EB">>>>, <<"blacksquare;", <<"U+25AA">>>>,
    <<"blacktriangle;", <<"U+25B4">>>>,
    <<"blacktriangledown;", <<"U+25BE">>>>,
    <<"blacktriangleleft;", <<"U+25C2">>>>,
    <<"blacktriangleright;", <<"U+25B8">>>>, <<"blank;", <<"U+2423">>>>,
    <<"blk12;", <<"U+2592">>>>, <<"blk14;", <<"U+2591">>>>,
    <<"blk34;", <<"U+2593">>>>, <<"block;", <<"U+2588">>>>,
    <<"bne;", <<"=", "U+20E5">>>>, <<"bnequiv;", <<"U+2261", "U+20E5">>>>,
    <<"bNot;", <<"U+2AED">>>>, <<"bnot;", <<"U+2310">>>>,
    <<"Bopf;", <<"U+1D539">>>>, <<"bopf;", <<"U+1D553">>>>,
    <<"bot;", <<"U+22A5">>>>, <<"bottom;", <<"U+22A5">>>>,
    <<"bowtie;", <<"U+22C8">>>>, <<"boxbox;", <<"U+29C9">>>>,
    <<"boxDL;", <<"U+2557">>>>, <<"boxDl;", <<"U+2556">>>>,
    <<"boxdL;", <<"U+2555">>>>, <<"boxdl;", <<"U+2510">>>>,
    <<"boxDR;", <<"U+2554">>>>, <<"boxDr;", <<"U+2553">>>>,
    <<"boxdR;", <<"U+2552">>>>, <<"boxdr;", <<"U+250C">>>>,
    <<"boxH;", <<"U+2550">>>>, <<"boxh;", <<"U+2500">>>>,
    <<"boxHD;", <<"U+2566">>>>, <<"boxHd;", <<"U+2564">>>>,
    <<"boxhD;", <<"U+2565">>>>, <<"boxhd;", <<"U+252C">>>>,
    <<"boxHU;", <<"U+2569">>>>, <<"boxHu;", <<"U+2567">>>>,
    <<"boxhU;", <<"U+2568">>>>, <<"boxhu;", <<"U+2534">>>>,
    <<"boxminus;", <<"U+229F">>>>, <<"boxplus;", <<"U+229E">>>>,
    <<"boxtimes;", <<"U+22A0">>>>, <<"boxUL;", <<"U+255D">>>>,
    <<"boxUl;", <<"U+255C">>>>, <<"boxuL;", <<"U+255B">>>>,
    <<"boxul;", <<"U+2518">>>>, <<"boxUR;", <<"U+255A">>>>,
    <<"boxUr;", <<"U+2559">>>>, <<"boxuR;", <<"U+2558">>>>,
    <<"boxur;", <<"U+2514">>>>, <<"boxV;", <<"U+2551">>>>,
    <<"boxv;", <<"U+2502">>>>, <<"boxVH;", <<"U+256C">>>>,
    <<"boxVh;", <<"U+256B">>>>, <<"boxvH;", <<"U+256A">>>>,
    <<"boxvh;", <<"U+253C">>>>, <<"boxVL;", <<"U+2563">>>>,
    <<"boxVl;", <<"U+2562">>>>, <<"boxvL;", <<"U+2561">>>>,
    <<"boxvl;", <<"U+2524">>>>, <<"boxVR;", <<"U+2560">>>>,
    <<"boxVr;", <<"U+255F">>>>, <<"boxvR;", <<"U+255E">>>>,
    <<"boxvr;", <<"U+251C">>>>, <<"bprime;", <<"U+2035">>>>,
    <<"Breve;", <<"U+02D8">>>>, <<"breve;", <<"U+02D8">>>>,
    <<"brvbar", <<"U+00A6">>>>, <<"brvbar;", <<"U+00A6">>>>,
    <<"Bscr;", <<"U+212C">>>>, <<"bscr;", <<"U+1D4B7">>>>,
    <<"bsemi;", <<"U+204F">>>>, <<"bsim;", <<"U+223D">>>>,
    <<"bsime;", <<"U+22CD">>>>, <<"bsol;", <<"\\">>>>,
    <<"bsolb;", <<"U+29C5">>>>, <<"bsolhsub;", <<"U+27C8">>>>,
    <<"bull;", <<"U+2022">>>>, <<"bullet;", <<"U+2022">>>>,
    <<"bump;", <<"U+224E">>>>, <<"bumpE;", <<"U+2AAE">>>>,
    <<"bumpe;", <<"U+224F">>>>, <<"Bumpeq;", <<"U+224E">>>>,
    <<"bumpeq;", <<"U+224F">>>>, <<"Cacute;", <<"U+0106">>>>,
    <<"cacute;", <<"U+0107">>>>, <<"Cap;", <<"U+22D2">>>>,
    <<"cap;", <<"U+2229">>>>, <<"capand;", <<"U+2A44">>>>,
    <<"capbrcup;", <<"U+2A49">>>>, <<"capcap;", <<"U+2A4B">>>>,
    <<"capcup;", <<"U+2A47">>>>, <<"capdot;", <<"U+2A40">>>>,
    <<"CapitalDifferentialD;", <<"U+2145">>>>,
    <<"caps;", <<"U+2229", "U+FE00">>>>, <<"caret;", <<"U+2041">>>>,
    <<"caron;", <<"U+02C7">>>>, <<"Cayleys;", <<"U+212D">>>>,
    <<"ccaps;", <<"U+2A4D">>>>, <<"Ccaron;", <<"U+010C">>>>,
    <<"ccaron;", <<"U+010D">>>>, <<"Ccedil", <<"U+00C7">>>>,
    <<"ccedil", <<"U+00E7">>>>, <<"Ccedil;", <<"U+00C7">>>>,
    <<"ccedil;", <<"U+00E7">>>>, <<"Ccirc;", <<"U+0108">>>>,
    <<"ccirc;", <<"U+0109">>>>, <<"Cconint;", <<"U+2230">>>>,
    <<"ccups;", <<"U+2A4C">>>>, <<"ccupssm;", <<"U+2A50">>>>,
    <<"Cdot;", <<"U+010A">>>>, <<"cdot;", <<"U+010B">>>>,
    <<"cedil", <<"U+00B8">>>>, <<"cedil;", <<"U+00B8">>>>,
    <<"Cedilla;", <<"U+00B8">>>>, <<"cemptyv;", <<"U+29B2">>>>,
    <<"cent", <<"U+00A2">>>>, <<"cent;", <<"U+00A2">>>>,
    <<"CenterDot;", <<"U+00B7">>>>, <<"centerdot;", <<"U+00B7">>>>,
    <<"Cfr;", <<"U+212D">>>>, <<"cfr;", <<"U+1D520">>>>,
    <<"CHcy;", <<"U+0427">>>>, <<"chcy;", <<"U+0447">>>>,
    <<"check;", <<"U+2713">>>>, <<"checkmark;", <<"U+2713">>>>,
    <<"Chi;", <<"U+03A7">>>>, <<"chi;", <<"U+03C7">>>>,
    <<"cir;", <<"U+25CB">>>>, <<"circ;", <<"U+02C6">>>>,
    <<"circeq;", <<"U+2257">>>>, <<"circlearrowleft;", <<"U+21BA">>>>,
    <<"circlearrowright;", <<"U+21BB">>>>, <<"circledast;", <<"U+229B">>>>,
    <<"circledcirc;", <<"U+229A">>>>, <<"circleddash;", <<"U+229D">>>>,
    <<"CircleDot;", <<"U+2299">>>>, <<"circledR;", <<"U+00AE">>>>,
    <<"circledS;", <<"U+24C8">>>>, <<"CircleMinus;", <<"U+2296">>>>,
    <<"CirclePlus;", <<"U+2295">>>>, <<"CircleTimes;", <<"U+2297">>>>,
    <<"cirE;", <<"U+29C3">>>>, <<"cire;", <<"U+2257">>>>,
    <<"cirfnint;", <<"U+2A10">>>>, <<"cirmid;", <<"U+2AEF">>>>,
    <<"cirscir;", <<"U+29C2">>>>,
    <<"ClockwiseContourIntegral;", <<"U+2232">>>>,
    <<"CloseCurlyDoubleQuote;", <<"U+201D">>>>,
    <<"CloseCurlyQuote;", <<"U+2019">>>>, <<"clubs;", <<"U+2663">>>>,
    <<"clubsuit;", <<"U+2663">>>>, <<"Colon;", <<"U+2237">>>>,
    <<"colon;", <<":">>>>, <<"Colone;", <<"U+2A74">>>>,
    <<"colone;", <<"U+2254">>>>, <<"coloneq;", <<"U+2254">>>>,
    <<"comma;", <<",">>>>, <<"commat;", <<"@">>>>, <<"comp;", <<"U+2201">>>>,
    <<"compfn;", <<"U+2218">>>>, <<"complement;", <<"U+2201">>>>,
    <<"complexes;", <<"U+2102">>>>, <<"cong;", <<"U+2245">>>>,
    <<"congdot;", <<"U+2A6D">>>>, <<"Congruent;", <<"U+2261">>>>,
    <<"Conint;", <<"U+222F">>>>, <<"conint;", <<"U+222E">>>>,
    <<"ContourIntegral;", <<"U+222E">>>>, <<"Copf;", <<"U+2102">>>>,
    <<"copf;", <<"U+1D554">>>>, <<"coprod;", <<"U+2210">>>>,
    <<"Coproduct;", <<"U+2210">>>>, <<"COPY", <<"U+00A9">>>>,
    <<"copy", <<"U+00A9">>>>, <<"COPY;", <<"U+00A9">>>>,
    <<"copy;", <<"U+00A9">>>>, <<"copysr;", <<"U+2117">>>>,
    <<"CounterClockwiseContourIntegral;", <<"U+2233">>>>,
    <<"crarr;", <<"U+21B5">>>>, <<"Cross;", <<"U+2A2F">>>>,
    <<"cross;", <<"U+2717">>>>, <<"Cscr;", <<"U+1D49E">>>>,
    <<"cscr;", <<"U+1D4B8">>>>, <<"csub;", <<"U+2ACF">>>>,
    <<"csube;", <<"U+2AD1">>>>, <<"csup;", <<"U+2AD0">>>>,
    <<"csupe;", <<"U+2AD2">>>>, <<"ctdot;", <<"U+22EF">>>>,
    <<"cudarrl;", <<"U+2938">>>>, <<"cudarrr;", <<"U+2935">>>>,
    <<"cuepr;", <<"U+22DE">>>>, <<"cuesc;", <<"U+22DF">>>>,
    <<"cularr;", <<"U+21B6">>>>, <<"cularrp;", <<"U+293D">>>>,
    <<"Cup;", <<"U+22D3">>>>, <<"cup;", <<"U+222A">>>>,
    <<"cupbrcap;", <<"U+2A48">>>>, <<"CupCap;", <<"U+224D">>>>,
    <<"cupcap;", <<"U+2A46">>>>, <<"cupcup;", <<"U+2A4A">>>>,
    <<"cupdot;", <<"U+228D">>>>, <<"cupor;", <<"U+2A45">>>>,
    <<"cups;", <<"U+222A", "U+FE00">>>>, <<"curarr;", <<"U+21B7">>>>,
    <<"curarrm;", <<"U+293C">>>>, <<"curlyeqprec;", <<"U+22DE">>>>,
    <<"curlyeqsucc;", <<"U+22DF">>>>, <<"curlyvee;", <<"U+22CE">>>>,
    <<"curlywedge;", <<"U+22CF">>>>, <<"curren", <<"U+00A4">>>>,
    <<"curren;", <<"U+00A4">>>>, <<"curvearrowleft;", <<"U+21B6">>>>,
    <<"curvearrowright;", <<"U+21B7">>>>, <<"cuvee;", <<"U+22CE">>>>,
    <<"cuwed;", <<"U+22CF">>>>, <<"cwconint;", <<"U+2232">>>>,
    <<"cwint;", <<"U+2231">>>>, <<"cylcty;", <<"U+232D">>>>,
    <<"Dagger;", <<"U+2021">>>>, <<"dagger;", <<"U+2020">>>>,
    <<"daleth;", <<"U+2138">>>>, <<"Darr;", <<"U+21A1">>>>,
    <<"dArr;", <<"U+21D3">>>>, <<"darr;", <<"U+2193">>>>,
    <<"dash;", <<"U+2010">>>>, <<"Dashv;", <<"U+2AE4">>>>,
    <<"dashv;", <<"U+22A3">>>>, <<"dbkarow;", <<"U+290F">>>>,
    <<"dblac;", <<"U+02DD">>>>, <<"Dcaron;", <<"U+010E">>>>,
    <<"dcaron;", <<"U+010F">>>>, <<"Dcy;", <<"U+0414">>>>,
    <<"dcy;", <<"U+0434">>>>, <<"DD;", <<"U+2145">>>>,
    <<"dd;", <<"U+2146">>>>, <<"ddagger;", <<"U+2021">>>>,
    <<"ddarr;", <<"U+21CA">>>>, <<"DDotrahd;", <<"U+2911">>>>,
    <<"ddotseq;", <<"U+2A77">>>>, <<"deg", <<"U+00B0">>>>,
    <<"deg;", <<"U+00B0">>>>, <<"Del;", <<"U+2207">>>>,
    <<"Delta;", <<"U+0394">>>>, <<"delta;", <<"U+03B4">>>>,
    <<"demptyv;", <<"U+29B1">>>>, <<"dfisht;", <<"U+297F">>>>,
    <<"Dfr;", <<"U+1D507">>>>, <<"dfr;", <<"U+1D521">>>>,
    <<"dHar;", <<"U+2965">>>>, <<"dharl;", <<"U+21C3">>>>,
    <<"dharr;", <<"U+21C2">>>>, <<"DiacriticalAcute;", <<"U+00B4">>>>,
    <<"DiacriticalDot;", <<"U+02D9">>>>,
    <<"DiacriticalDoubleAcute;", <<"U+02DD">>>>,
    <<"DiacriticalGrave;", <<"U+0060">>>>,
    <<"DiacriticalTilde;", <<"U+02DC">>>>, <<"diam;", <<"U+22C4">>>>,
    <<"Diamond;", <<"U+22C4">>>>, <<"diamond;", <<"U+22C4">>>>,
    <<"diamondsuit;", <<"U+2666">>>>, <<"diams;", <<"U+2666">>>>,
    <<"die;", <<"U+00A8">>>>, <<"DifferentialD;", <<"U+2146">>>>,
    <<"digamma;", <<"U+03DD">>>>, <<"disin;", <<"U+22F2">>>>,
    <<"div;", <<"U+00F7">>>>, <<"divide", <<"U+00F7">>>>,
    <<"divide;", <<"U+00F7">>>>, <<"divideontimes;", <<"U+22C7">>>>,
    <<"divonx;", <<"U+22C7">>>>, <<"DJcy;", <<"U+0402">>>>,
    <<"djcy;", <<"U+0452">>>>, <<"dlcorn;", <<"U+231E">>>>,
    <<"dlcrop;", <<"U+230D">>>>, <<"dollar;", <<"$">>>>,
    <<"Dopf;", <<"U+1D53B">>>>, <<"dopf;", <<"U+1D555">>>>,
    <<"Dot;", <<"U+00A8">>>>, <<"dot;", <<"U+02D9">>>>,
    <<"DotDot;", <<"U+20DC">>>>, <<"doteq;", <<"U+2250">>>>,
    <<"doteqdot;", <<"U+2251">>>>, <<"DotEqual;", <<"U+2250">>>>,
    <<"dotminus;", <<"U+2238">>>>, <<"dotplus;", <<"U+2214">>>>,
    <<"dotsquare;", <<"U+22A1">>>>, <<"doublebarwedge;", <<"U+2306">>>>,
    <<"DoubleContourIntegral;", <<"U+222F">>>>,
    <<"DoubleDot;", <<"U+00A8">>>>, <<"DoubleDownArrow;", <<"U+21D3">>>>,
    <<"DoubleLeftArrow;", <<"U+21D0">>>>,
    <<"DoubleLeftRightArrow;", <<"U+21D4">>>>,
    <<"DoubleLeftTee;", <<"U+2AE4">>>>,
    <<"DoubleLongLeftArrow;", <<"U+27F8">>>>,
    <<"DoubleLongLeftRightArrow;", <<"U+27FA">>>>,
    <<"DoubleLongRightArrow;", <<"U+27F9">>>>,
    <<"DoubleRightArrow;", <<"U+21D2">>>>,
    <<"DoubleRightTee;", <<"U+22A8">>>>, <<"DoubleUpArrow;", <<"U+21D1">>>>,
    <<"DoubleUpDownArrow;", <<"U+21D5">>>>,
    <<"DoubleVerticalBar;", <<"U+2225">>>>, <<"DownArrow;", <<"U+2193">>>>,
    <<"Downarrow;", <<"U+21D3">>>>, <<"downarrow;", <<"U+2193">>>>,
    <<"DownArrowBar;", <<"U+2913">>>>, <<"DownArrowUpArrow;", <<"U+21F5">>>>,
    <<"DownBreve;", <<"U+0311">>>>, <<"downdownarrows;", <<"U+21CA">>>>,
    <<"downharpoonleft;", <<"U+21C3">>>>,
    <<"downharpoonright;", <<"U+21C2">>>>,
    <<"DownLeftRightVector;", <<"U+2950">>>>,
    <<"DownLeftTeeVector;", <<"U+295E">>>>,
    <<"DownLeftVector;", <<"U+21BD">>>>,
    <<"DownLeftVectorBar;", <<"U+2956">>>>,
    <<"DownRightTeeVector;", <<"U+295F">>>>,
    <<"DownRightVector;", <<"U+21C1">>>>,
    <<"DownRightVectorBar;", <<"U+2957">>>>, <<"DownTee;", <<"U+22A4">>>>,
    <<"DownTeeArrow;", <<"U+21A7">>>>, <<"drbkarow;", <<"U+2910">>>>,
    <<"drcorn;", <<"U+231F">>>>, <<"drcrop;", <<"U+230C">>>>,
    <<"Dscr;", <<"U+1D49F">>>>, <<"dscr;", <<"U+1D4B9">>>>,
    <<"DScy;", <<"U+0405">>>>, <<"dscy;", <<"U+0455">>>>,
    <<"dsol;", <<"U+29F6">>>>, <<"Dstrok;", <<"U+0110">>>>,
    <<"dstrok;", <<"U+0111">>>>, <<"dtdot;", <<"U+22F1">>>>,
    <<"dtri;", <<"U+25BF">>>>, <<"dtrif;", <<"U+25BE">>>>,
    <<"duarr;", <<"U+21F5">>>>, <<"duhar;", <<"U+296F">>>>,
    <<"dwangle;", <<"U+29A6">>>>, <<"DZcy;", <<"U+040F">>>>,
    <<"dzcy;", <<"U+045F">>>>, <<"dzigrarr;", <<"U+27FF">>>>,
    <<"Eacute", <<"U+00C9">>>>, <<"eacute", <<"U+00E9">>>>,
    <<"Eacute;", <<"U+00C9">>>>, <<"eacute;", <<"U+00E9">>>>,
    <<"easter;", <<"U+2A6E">>>>, <<"Ecaron;", <<"U+011A">>>>,
    <<"ecaron;", <<"U+011B">>>>, <<"ecir;", <<"U+2256">>>>,
    <<"Ecirc", <<"U+00CA">>>>, <<"ecirc", <<"U+00EA">>>>,
    <<"Ecirc;", <<"U+00CA">>>>, <<"ecirc;", <<"U+00EA">>>>,
    <<"ecolon;", <<"U+2255">>>>, <<"Ecy;", <<"U+042D">>>>,
    <<"ecy;", <<"U+044D">>>>, <<"eDDot;", <<"U+2A77">>>>,
    <<"Edot;", <<"U+0116">>>>, <<"eDot;", <<"U+2251">>>>,
    <<"edot;", <<"U+0117">>>>, <<"ee;", <<"U+2147">>>>,
    <<"efDot;", <<"U+2252">>>>, <<"Efr;", <<"U+1D508">>>>,
    <<"efr;", <<"U+1D522">>>>, <<"eg;", <<"U+2A9A">>>>,
    <<"Egrave", <<"U+00C8">>>>, <<"egrave", <<"U+00E8">>>>,
    <<"Egrave;", <<"U+00C8">>>>, <<"egrave;", <<"U+00E8">>>>,
    <<"egs;", <<"U+2A96">>>>, <<"egsdot;", <<"U+2A98">>>>,
    <<"el;", <<"U+2A99">>>>, <<"Element;", <<"U+2208">>>>,
    <<"elinters;", <<"U+23E7">>>>, <<"ell;", <<"U+2113">>>>,
    <<"els;", <<"U+2A95">>>>, <<"elsdot;", <<"U+2A97">>>>,
    <<"Emacr;", <<"U+0112">>>>, <<"emacr;", <<"U+0113">>>>,
    <<"empty;", <<"U+2205">>>>, <<"emptyset;", <<"U+2205">>>>,
    <<"EmptySmallSquare;", <<"U+25FB">>>>, <<"emptyv;", <<"U+2205">>>>,
    <<"EmptyVerySmallSquare;", <<"U+25AB">>>>, <<"emsp13;", <<"U+2004">>>>,
    <<"emsp14;", <<"U+2005">>>>, <<"emsp;", <<"U+2003">>>>,
    <<"ENG;", <<"U+014A">>>>, <<"eng;", <<"U+014B">>>>,
    <<"ensp;", <<"U+2002">>>>, <<"Eogon;", <<"U+0118">>>>,
    <<"eogon;", <<"U+0119">>>>, <<"Eopf;", <<"U+1D53C">>>>,
    <<"eopf;", <<"U+1D556">>>>, <<"epar;", <<"U+22D5">>>>,
    <<"eparsl;", <<"U+29E3">>>>, <<"eplus;", <<"U+2A71">>>>,
    <<"epsi;", <<"U+03B5">>>>, <<"Epsilon;", <<"U+0395">>>>,
    <<"epsilon;", <<"U+03B5">>>>, <<"epsiv;", <<"U+03F5">>>>,
    <<"eqcirc;", <<"U+2256">>>>, <<"eqcolon;", <<"U+2255">>>>,
    <<"eqsim;", <<"U+2242">>>>, <<"eqslantgtr;", <<"U+2A96">>>>,
    <<"eqslantless;", <<"U+2A95">>>>, <<"Equal;", <<"U+2A75">>>>,
    <<"equals;", <<"=">>>>, <<"EqualTilde;", <<"U+2242">>>>,
    <<"equest;", <<"U+225F">>>>, <<"Equilibrium;", <<"U+21CC">>>>,
    <<"equiv;", <<"U+2261">>>>, <<"equivDD;", <<"U+2A78">>>>,
    <<"eqvparsl;", <<"U+29E5">>>>, <<"erarr;", <<"U+2971">>>>,
    <<"erDot;", <<"U+2253">>>>, <<"Escr;", <<"U+2130">>>>,
    <<"escr;", <<"U+212F">>>>, <<"esdot;", <<"U+2250">>>>,
    <<"Esim;", <<"U+2A73">>>>, <<"esim;", <<"U+2242">>>>,
    <<"Eta;", <<"U+0397">>>>, <<"eta;", <<"U+03B7">>>>,
    <<"ETH", <<"U+00D0">>>>, <<"eth", <<"U+00F0">>>>,
    <<"ETH;", <<"U+00D0">>>>, <<"eth;", <<"U+00F0">>>>,
    <<"Euml", <<"U+00CB">>>>, <<"euml", <<"U+00EB">>>>,
    <<"Euml;", <<"U+00CB">>>>, <<"euml;", <<"U+00EB">>>>,
    <<"euro;", <<"U+20AC">>>>, <<"excl;", <<"!">>>>,
    <<"exist;", <<"U+2203">>>>, <<"Exists;", <<"U+2203">>>>,
    <<"expectation;", <<"U+2130">>>>, <<"ExponentialE;", <<"U+2147">>>>,
    <<"exponentiale;", <<"U+2147">>>>, <<"fallingdotseq;", <<"U+2252">>>>,
    <<"Fcy;", <<"U+0424">>>>, <<"fcy;", <<"U+0444">>>>,
    <<"female;", <<"U+2640">>>>, <<"ffilig;", <<"U+FB03">>>>,
    <<"fflig;", <<"U+FB00">>>>, <<"ffllig;", <<"U+FB04">>>>,
    <<"Ffr;", <<"U+1D509">>>>, <<"ffr;", <<"U+1D523">>>>,
    <<"filig;", <<"U+FB01">>>>, <<"FilledSmallSquare;", <<"U+25FC">>>>,
    <<"FilledVerySmallSquare;", <<"U+25AA">>>>, <<"fjlig;", <<"f", "j">>>>,
    <<"flat;", <<"U+266D">>>>, <<"fllig;", <<"U+FB02">>>>,
    <<"fltns;", <<"U+25B1">>>>, <<"fnof;", <<"U+0192">>>>,
    <<"Fopf;", <<"U+1D53D">>>>, <<"fopf;", <<"U+1D557">>>>,
    <<"ForAll;", <<"U+2200">>>>, <<"forall;", <<"U+2200">>>>,
    <<"fork;", <<"U+22D4">>>>, <<"forkv;", <<"U+2AD9">>>>,
    <<"Fouriertrf;", <<"U+2131">>>>, <<"fpartint;", <<"U+2A0D">>>>,
    <<"frac12", <<"U+00BD">>>>, <<"frac12;", <<"U+00BD">>>>,
    <<"frac13;", <<"U+2153">>>>, <<"frac14", <<"U+00BC">>>>,
    <<"frac14;", <<"U+00BC">>>>, <<"frac15;", <<"U+2155">>>>,
    <<"frac16;", <<"U+2159">>>>, <<"frac18;", <<"U+215B">>>>,
    <<"frac23;", <<"U+2154">>>>, <<"frac25;", <<"U+2156">>>>,
    <<"frac34", <<"U+00BE">>>>, <<"frac34;", <<"U+00BE">>>>,
    <<"frac35;", <<"U+2157">>>>, <<"frac38;", <<"U+215C">>>>,
    <<"frac45;", <<"U+2158">>>>, <<"frac56;", <<"U+215A">>>>,
    <<"frac58;", <<"U+215D">>>>, <<"frac78;", <<"U+215E">>>>,
    <<"frasl;", <<"U+2044">>>>, <<"frown;", <<"U+2322">>>>,
    <<"Fscr;", <<"U+2131">>>>, <<"fscr;", <<"U+1D4BB">>>>,
    <<"gacute;", <<"U+01F5">>>>, <<"Gamma;", <<"U+0393">>>>,
    <<"gamma;", <<"U+03B3">>>>, <<"Gammad;", <<"U+03DC">>>>,
    <<"gammad;", <<"U+03DD">>>>, <<"gap;", <<"U+2A86">>>>,
    <<"Gbreve;", <<"U+011E">>>>, <<"gbreve;", <<"U+011F">>>>,
    <<"Gcedil;", <<"U+0122">>>>, <<"Gcirc;", <<"U+011C">>>>,
    <<"gcirc;", <<"U+011D">>>>, <<"Gcy;", <<"U+0413">>>>,
    <<"gcy;", <<"U+0433">>>>, <<"Gdot;", <<"U+0120">>>>,
    <<"gdot;", <<"U+0121">>>>, <<"gE;", <<"U+2267">>>>,
    <<"ge;", <<"U+2265">>>>, <<"gEl;", <<"U+2A8C">>>>,
    <<"gel;", <<"U+22DB">>>>, <<"geq;", <<"U+2265">>>>,
    <<"geqq;", <<"U+2267">>>>, <<"geqslant;", <<"U+2A7E">>>>,
    <<"ges;", <<"U+2A7E">>>>, <<"gescc;", <<"U+2AA9">>>>,
    <<"gesdot;", <<"U+2A80">>>>, <<"gesdoto;", <<"U+2A82">>>>,
    <<"gesdotol;", <<"U+2A84">>>>, <<"gesl;", <<"U+22DB", "U+FE00">>>>,
    <<"gesles;", <<"U+2A94">>>>, <<"Gfr;", <<"U+1D50A">>>>,
    <<"gfr;", <<"U+1D524">>>>, <<"Gg;", <<"U+22D9">>>>,
    <<"gg;", <<"U+226B">>>>, <<"ggg;", <<"U+22D9">>>>,
    <<"gimel;", <<"U+2137">>>>, <<"GJcy;", <<"U+0403">>>>,
    <<"gjcy;", <<"U+0453">>>>, <<"gl;", <<"U+2277">>>>,
    <<"gla;", <<"U+2AA5">>>>, <<"glE;", <<"U+2A92">>>>,
    <<"glj;", <<"U+2AA4">>>>, <<"gnap;", <<"U+2A8A">>>>,
    <<"gnapprox;", <<"U+2A8A">>>>, <<"gnE;", <<"U+2269">>>>,
    <<"gne;", <<"U+2A88">>>>, <<"gneq;", <<"U+2A88">>>>,
    <<"gneqq;", <<"U+2269">>>>, <<"gnsim;", <<"U+22E7">>>>,
    <<"Gopf;", <<"U+1D53E">>>>, <<"gopf;", <<"U+1D558">>>>,
    <<"grave;", <<"U+0060">>>>, <<"GreaterEqual;", <<"U+2265">>>>,
    <<"GreaterEqualLess;", <<"U+22DB">>>>,
    <<"GreaterFullEqual;", <<"U+2267">>>>,
    <<"GreaterGreater;", <<"U+2AA2">>>>, <<"GreaterLess;", <<"U+2277">>>>,
    <<"GreaterSlantEqual;", <<"U+2A7E">>>>,
    <<"GreaterTilde;", <<"U+2273">>>>, <<"Gscr;", <<"U+1D4A2">>>>,
    <<"gscr;", <<"U+210A">>>>, <<"gsim;", <<"U+2273">>>>,
    <<"gsime;", <<"U+2A8E">>>>, <<"gsiml;", <<"U+2A90">>>>,
    <<"GT", <<">">>>>, <<"gt", <<">">>>>, <<"GT;", <<">">>>>,
    <<"Gt;", <<"U+226B">>>>, <<"gt;", <<">">>>>, <<"gtcc;", <<"U+2AA7">>>>,
    <<"gtcir;", <<"U+2A7A">>>>, <<"gtdot;", <<"U+22D7">>>>,
    <<"gtlPar;", <<"U+2995">>>>, <<"gtquest;", <<"U+2A7C">>>>,
    <<"gtrapprox;", <<"U+2A86">>>>, <<"gtrarr;", <<"U+2978">>>>,
    <<"gtrdot;", <<"U+22D7">>>>, <<"gtreqless;", <<"U+22DB">>>>,
    <<"gtreqqless;", <<"U+2A8C">>>>, <<"gtrless;", <<"U+2277">>>>,
    <<"gtrsim;", <<"U+2273">>>>, <<"gvertneqq;", <<"U+2269", "U+FE00">>>>,
    <<"gvnE;", <<"U+2269", "U+FE00">>>>, <<"Hacek;", <<"U+02C7">>>>,
    <<"hairsp;", <<"U+200A">>>>, <<"half;", <<"U+00BD">>>>,
    <<"hamilt;", <<"U+210B">>>>, <<"HARDcy;", <<"U+042A">>>>,
    <<"hardcy;", <<"U+044A">>>>, <<"hArr;", <<"U+21D4">>>>,
    <<"harr;", <<"U+2194">>>>, <<"harrcir;", <<"U+2948">>>>,
    <<"harrw;", <<"U+21AD">>>>, <<"Hat;", <<"^">>>>,
    <<"hbar;", <<"U+210F">>>>, <<"Hcirc;", <<"U+0124">>>>,
    <<"hcirc;", <<"U+0125">>>>, <<"hearts;", <<"U+2665">>>>,
    <<"heartsuit;", <<"U+2665">>>>, <<"hellip;", <<"U+2026">>>>,
    <<"hercon;", <<"U+22B9">>>>, <<"Hfr;", <<"U+210C">>>>,
    <<"hfr;", <<"U+1D525">>>>, <<"HilbertSpace;", <<"U+210B">>>>,
    <<"hksearow;", <<"U+2925">>>>, <<"hkswarow;", <<"U+2926">>>>,
    <<"hoarr;", <<"U+21FF">>>>, <<"homtht;", <<"U+223B">>>>,
    <<"hookleftarrow;", <<"U+21A9">>>>, <<"hookrightarrow;", <<"U+21AA">>>>,
    <<"Hopf;", <<"U+210D">>>>, <<"hopf;", <<"U+1D559">>>>,
    <<"horbar;", <<"U+2015">>>>, <<"HorizontalLine;", <<"U+2500">>>>,
    <<"Hscr;", <<"U+210B">>>>, <<"hscr;", <<"U+1D4BD">>>>,
    <<"hslash;", <<"U+210F">>>>, <<"Hstrok;", <<"U+0126">>>>,
    <<"hstrok;", <<"U+0127">>>>, <<"HumpDownHump;", <<"U+224E">>>>,
    <<"HumpEqual;", <<"U+224F">>>>, <<"hybull;", <<"U+2043">>>>,
    <<"hyphen;", <<"U+2010">>>>, <<"Iacute", <<"U+00CD">>>>,
    <<"iacute", <<"U+00ED">>>>, <<"Iacute;", <<"U+00CD">>>>,
    <<"iacute;", <<"U+00ED">>>>, <<"ic;", <<"U+2063">>>>,
    <<"Icirc", <<"U+00CE">>>>, <<"icirc", <<"U+00EE">>>>,
    <<"Icirc;", <<"U+00CE">>>>, <<"icirc;", <<"U+00EE">>>>,
    <<"Icy;", <<"U+0418">>>>, <<"icy;", <<"U+0438">>>>,
    <<"Idot;", <<"U+0130">>>>, <<"IEcy;", <<"U+0415">>>>,
    <<"iecy;", <<"U+0435">>>>, <<"iexcl", <<"U+00A1">>>>,
    <<"iexcl;", <<"U+00A1">>>>, <<"iff;", <<"U+21D4">>>>,
    <<"Ifr;", <<"U+2111">>>>, <<"ifr;", <<"U+1D526">>>>,
    <<"Igrave", <<"U+00CC">>>>, <<"igrave", <<"U+00EC">>>>,
    <<"Igrave;", <<"U+00CC">>>>, <<"igrave;", <<"U+00EC">>>>,
    <<"ii;", <<"U+2148">>>>, <<"iiiint;", <<"U+2A0C">>>>,
    <<"iiint;", <<"U+222D">>>>, <<"iinfin;", <<"U+29DC">>>>,
    <<"iiota;", <<"U+2129">>>>, <<"IJlig;", <<"U+0132">>>>,
    <<"ijlig;", <<"U+0133">>>>, <<"Im;", <<"U+2111">>>>,
    <<"Imacr;", <<"U+012A">>>>, <<"imacr;", <<"U+012B">>>>,
    <<"image;", <<"U+2111">>>>, <<"ImaginaryI;", <<"U+2148">>>>,
    <<"imagline;", <<"U+2110">>>>, <<"imagpart;", <<"U+2111">>>>,
    <<"imath;", <<"U+0131">>>>, <<"imof;", <<"U+22B7">>>>,
    <<"imped;", <<"U+01B5">>>>, <<"Implies;", <<"U+21D2">>>>,
    <<"in;", <<"U+2208">>>>, <<"incare;", <<"U+2105">>>>,
    <<"infin;", <<"U+221E">>>>, <<"infintie;", <<"U+29DD">>>>,
    <<"inodot;", <<"U+0131">>>>, <<"Int;", <<"U+222C">>>>,
    <<"int;", <<"U+222B">>>>, <<"intcal;", <<"U+22BA">>>>,
    <<"integers;", <<"U+2124">>>>, <<"Integral;", <<"U+222B">>>>,
    <<"intercal;", <<"U+22BA">>>>, <<"Intersection;", <<"U+22C2">>>>,
    <<"intlarhk;", <<"U+2A17">>>>, <<"intprod;", <<"U+2A3C">>>>,
    <<"InvisibleComma;", <<"U+2063">>>>, <<"InvisibleTimes;", <<"U+2062">>>>,
    <<"IOcy;", <<"U+0401">>>>, <<"iocy;", <<"U+0451">>>>,
    <<"Iogon;", <<"U+012E">>>>, <<"iogon;", <<"U+012F">>>>,
    <<"Iopf;", <<"U+1D540">>>>, <<"iopf;", <<"U+1D55A">>>>,
    <<"Iota;", <<"U+0399">>>>, <<"iota;", <<"U+03B9">>>>,
    <<"iprod;", <<"U+2A3C">>>>, <<"iquest", <<"U+00BF">>>>,
    <<"iquest;", <<"U+00BF">>>>, <<"Iscr;", <<"U+2110">>>>,
    <<"iscr;", <<"U+1D4BE">>>>, <<"isin;", <<"U+2208">>>>,
    <<"isindot;", <<"U+22F5">>>>, <<"isinE;", <<"U+22F9">>>>,
    <<"isins;", <<"U+22F4">>>>, <<"isinsv;", <<"U+22F3">>>>,
    <<"isinv;", <<"U+2208">>>>, <<"it;", <<"U+2062">>>>,
    <<"Itilde;", <<"U+0128">>>>, <<"itilde;", <<"U+0129">>>>,
    <<"Iukcy;", <<"U+0406">>>>, <<"iukcy;", <<"U+0456">>>>,
    <<"Iuml", <<"U+00CF">>>>, <<"iuml", <<"U+00EF">>>>,
    <<"Iuml;", <<"U+00CF">>>>, <<"iuml;", <<"U+00EF">>>>,
    <<"Jcirc;", <<"U+0134">>>>, <<"jcirc;", <<"U+0135">>>>,
    <<"Jcy;", <<"U+0419">>>>, <<"jcy;", <<"U+0439">>>>,
    <<"Jfr;", <<"U+1D50D">>>>, <<"jfr;", <<"U+1D527">>>>,
    <<"jmath;", <<"U+0237">>>>, <<"Jopf;", <<"U+1D541">>>>,
    <<"jopf;", <<"U+1D55B">>>>, <<"Jscr;", <<"U+1D4A5">>>>,
    <<"jscr;", <<"U+1D4BF">>>>, <<"Jsercy;", <<"U+0408">>>>,
    <<"jsercy;", <<"U+0458">>>>, <<"Jukcy;", <<"U+0404">>>>,
    <<"jukcy;", <<"U+0454">>>>, <<"Kappa;", <<"U+039A">>>>,
    <<"kappa;", <<"U+03BA">>>>, <<"kappav;", <<"U+03F0">>>>,
    <<"Kcedil;", <<"U+0136">>>>, <<"kcedil;", <<"U+0137">>>>,
    <<"Kcy;", <<"U+041A">>>>, <<"kcy;", <<"U+043A">>>>,
    <<"Kfr;", <<"U+1D50E">>>>, <<"kfr;", <<"U+1D528">>>>,
    <<"kgreen;", <<"U+0138">>>>, <<"KHcy;", <<"U+0425">>>>,
    <<"khcy;", <<"U+0445">>>>, <<"KJcy;", <<"U+040C">>>>,
    <<"kjcy;", <<"U+045C">>>>, <<"Kopf;", <<"U+1D542">>>>,
    <<"kopf;", <<"U+1D55C">>>>, <<"Kscr;", <<"U+1D4A6">>>>,
    <<"kscr;", <<"U+1D4C0">>>>, <<"lAarr;", <<"U+21DA">>>>,
    <<"Lacute;", <<"U+0139">>>>, <<"lacute;", <<"U+013A">>>>,
    <<"laemptyv;", <<"U+29B4">>>>, <<"lagran;", <<"U+2112">>>>,
    <<"Lambda;", <<"U+039B">>>>, <<"lambda;", <<"U+03BB">>>>,
    <<"Lang;", <<"U+27EA">>>>, <<"lang;", <<"U+27E8">>>>,
    <<"langd;", <<"U+2991">>>>, <<"langle;", <<"U+27E8">>>>,
    <<"lap;", <<"U+2A85">>>>, <<"Laplacetrf;", <<"U+2112">>>>,
    <<"laquo", <<"U+00AB">>>>, <<"laquo;", <<"U+00AB">>>>,
    <<"Larr;", <<"U+219E">>>>, <<"lArr;", <<"U+21D0">>>>,
    <<"larr;", <<"U+2190">>>>, <<"larrb;", <<"U+21E4">>>>,
    <<"larrbfs;", <<"U+291F">>>>, <<"larrfs;", <<"U+291D">>>>,
    <<"larrhk;", <<"U+21A9">>>>, <<"larrlp;", <<"U+21AB">>>>,
    <<"larrpl;", <<"U+2939">>>>, <<"larrsim;", <<"U+2973">>>>,
    <<"larrtl;", <<"U+21A2">>>>, <<"lat;", <<"U+2AAB">>>>,
    <<"lAtail;", <<"U+291B">>>>, <<"latail;", <<"U+2919">>>>,
    <<"late;", <<"U+2AAD">>>>, <<"lates;", <<"U+2AAD", "U+FE00">>>>,
    <<"lBarr;", <<"U+290E">>>>, <<"lbarr;", <<"U+290C">>>>,
    <<"lbbrk;", <<"U+2772">>>>, <<"lbrace;", <<"{">>>>,
    <<"lbrack;", <<"[">>>>, <<"lbrke;", <<"U+298B">>>>,
    <<"lbrksld;", <<"U+298F">>>>, <<"lbrkslu;", <<"U+298D">>>>,
    <<"Lcaron;", <<"U+013D">>>>, <<"lcaron;", <<"U+013E">>>>,
    <<"Lcedil;", <<"U+013B">>>>, <<"lcedil;", <<"U+013C">>>>,
    <<"lceil;", <<"U+2308">>>>, <<"lcub;", <<"{">>>>,
    <<"Lcy;", <<"U+041B">>>>, <<"lcy;", <<"U+043B">>>>,
    <<"ldca;", <<"U+2936">>>>, <<"ldquo;", <<"U+201C">>>>,
    <<"ldquor;", <<"U+201E">>>>, <<"ldrdhar;", <<"U+2967">>>>,
    <<"ldrushar;", <<"U+294B">>>>, <<"ldsh;", <<"U+21B2">>>>,
    <<"lE;", <<"U+2266">>>>, <<"le;", <<"U+2264">>>>,
    <<"LeftAngleBracket;", <<"U+27E8">>>>, <<"LeftArrow;", <<"U+2190">>>>,
    <<"Leftarrow;", <<"U+21D0">>>>, <<"leftarrow;", <<"U+2190">>>>,
    <<"LeftArrowBar;", <<"U+21E4">>>>,
    <<"LeftArrowRightArrow;", <<"U+21C6">>>>,
    <<"leftarrowtail;", <<"U+21A2">>>>, <<"LeftCeiling;", <<"U+2308">>>>,
    <<"LeftDoubleBracket;", <<"U+27E6">>>>,
    <<"LeftDownTeeVector;", <<"U+2961">>>>,
    <<"LeftDownVector;", <<"U+21C3">>>>,
    <<"LeftDownVectorBar;", <<"U+2959">>>>, <<"LeftFloor;", <<"U+230A">>>>,
    <<"leftharpoondown;", <<"U+21BD">>>>, <<"leftharpoonup;", <<"U+21BC">>>>,
    <<"leftleftarrows;", <<"U+21C7">>>>, <<"LeftRightArrow;", <<"U+2194">>>>,
    <<"Leftrightarrow;", <<"U+21D4">>>>, <<"leftrightarrow;", <<"U+2194">>>>,
    <<"leftrightarrows;", <<"U+21C6">>>>,
    <<"leftrightharpoons;", <<"U+21CB">>>>,
    <<"leftrightsquigarrow;", <<"U+21AD">>>>,
    <<"LeftRightVector;", <<"U+294E">>>>, <<"LeftTee;", <<"U+22A3">>>>,
    <<"LeftTeeArrow;", <<"U+21A4">>>>, <<"LeftTeeVector;", <<"U+295A">>>>,
    <<"leftthreetimes;", <<"U+22CB">>>>, <<"LeftTriangle;", <<"U+22B2">>>>,
    <<"LeftTriangleBar;", <<"U+29CF">>>>,
    <<"LeftTriangleEqual;", <<"U+22B4">>>>,
    <<"LeftUpDownVector;", <<"U+2951">>>>,
    <<"LeftUpTeeVector;", <<"U+2960">>>>, <<"LeftUpVector;", <<"U+21BF">>>>,
    <<"LeftUpVectorBar;", <<"U+2958">>>>, <<"LeftVector;", <<"U+21BC">>>>,
    <<"LeftVectorBar;", <<"U+2952">>>>, <<"lEg;", <<"U+2A8B">>>>,
    <<"leg;", <<"U+22DA">>>>, <<"leq;", <<"U+2264">>>>,
    <<"leqq;", <<"U+2266">>>>, <<"leqslant;", <<"U+2A7D">>>>,
    <<"les;", <<"U+2A7D">>>>, <<"lescc;", <<"U+2AA8">>>>,
    <<"lesdot;", <<"U+2A7F">>>>, <<"lesdoto;", <<"U+2A81">>>>,
    <<"lesdotor;", <<"U+2A83">>>>, <<"lesg;", <<"U+22DA", "U+FE00">>>>,
    <<"lesges;", <<"U+2A93">>>>, <<"lessapprox;", <<"U+2A85">>>>,
    <<"lessdot;", <<"U+22D6">>>>, <<"lesseqgtr;", <<"U+22DA">>>>,
    <<"lesseqqgtr;", <<"U+2A8B">>>>, <<"LessEqualGreater;", <<"U+22DA">>>>,
    <<"LessFullEqual;", <<"U+2266">>>>, <<"LessGreater;", <<"U+2276">>>>,
    <<"lessgtr;", <<"U+2276">>>>, <<"LessLess;", <<"U+2AA1">>>>,
    <<"lesssim;", <<"U+2272">>>>, <<"LessSlantEqual;", <<"U+2A7D">>>>,
    <<"LessTilde;", <<"U+2272">>>>, <<"lfisht;", <<"U+297C">>>>,
    <<"lfloor;", <<"U+230A">>>>, <<"Lfr;", <<"U+1D50F">>>>,
    <<"lfr;", <<"U+1D529">>>>, <<"lg;", <<"U+2276">>>>,
    <<"lgE;", <<"U+2A91">>>>, <<"lHar;", <<"U+2962">>>>,
    <<"lhard;", <<"U+21BD">>>>, <<"lharu;", <<"U+21BC">>>>,
    <<"lharul;", <<"U+296A">>>>, <<"lhblk;", <<"U+2584">>>>,
    <<"LJcy;", <<"U+0409">>>>, <<"ljcy;", <<"U+0459">>>>,
    <<"Ll;", <<"U+22D8">>>>, <<"ll;", <<"U+226A">>>>,
    <<"llarr;", <<"U+21C7">>>>, <<"llcorner;", <<"U+231E">>>>,
    <<"Lleftarrow;", <<"U+21DA">>>>, <<"llhard;", <<"U+296B">>>>,
    <<"lltri;", <<"U+25FA">>>>, <<"Lmidot;", <<"U+013F">>>>,
    <<"lmidot;", <<"U+0140">>>>, <<"lmoust;", <<"U+23B0">>>>,
    <<"lmoustache;", <<"U+23B0">>>>, <<"lnap;", <<"U+2A89">>>>,
    <<"lnapprox;", <<"U+2A89">>>>, <<"lnE;", <<"U+2268">>>>,
    <<"lne;", <<"U+2A87">>>>, <<"lneq;", <<"U+2A87">>>>,
    <<"lneqq;", <<"U+2268">>>>, <<"lnsim;", <<"U+22E6">>>>,
    <<"loang;", <<"U+27EC">>>>, <<"loarr;", <<"U+21FD">>>>,
    <<"lobrk;", <<"U+27E6">>>>, <<"LongLeftArrow;", <<"U+27F5">>>>,
    <<"Longleftarrow;", <<"U+27F8">>>>, <<"longleftarrow;", <<"U+27F5">>>>,
    <<"LongLeftRightArrow;", <<"U+27F7">>>>,
    <<"Longleftrightarrow;", <<"U+27FA">>>>,
    <<"longleftrightarrow;", <<"U+27F7">>>>, <<"longmapsto;", <<"U+27FC">>>>,
    <<"LongRightArrow;", <<"U+27F6">>>>, <<"Longrightarrow;", <<"U+27F9">>>>,
    <<"longrightarrow;", <<"U+27F6">>>>, <<"looparrowleft;", <<"U+21AB">>>>,
    <<"looparrowright;", <<"U+21AC">>>>, <<"lopar;", <<"U+2985">>>>,
    <<"Lopf;", <<"U+1D543">>>>, <<"lopf;", <<"U+1D55D">>>>,
    <<"loplus;", <<"U+2A2D">>>>, <<"lotimes;", <<"U+2A34">>>>,
    <<"lowast;", <<"U+2217">>>>, <<"lowbar;", <<"_">>>>,
    <<"LowerLeftArrow;", <<"U+2199">>>>,
    <<"LowerRightArrow;", <<"U+2198">>>>, <<"loz;", <<"U+25CA">>>>,
    <<"lozenge;", <<"U+25CA">>>>, <<"lozf;", <<"U+29EB">>>>,
    <<"lpar;", <<"(">>>>, <<"lparlt;", <<"U+2993">>>>,
    <<"lrarr;", <<"U+21C6">>>>, <<"lrcorner;", <<"U+231F">>>>,
    <<"lrhar;", <<"U+21CB">>>>, <<"lrhard;", <<"U+296D">>>>,
    <<"lrm;", <<"U+200E">>>>, <<"lrtri;", <<"U+22BF">>>>,
    <<"lsaquo;", <<"U+2039">>>>, <<"Lscr;", <<"U+2112">>>>,
    <<"lscr;", <<"U+1D4C1">>>>, <<"Lsh;", <<"U+21B0">>>>,
    <<"lsh;", <<"U+21B0">>>>, <<"lsim;", <<"U+2272">>>>,
    <<"lsime;", <<"U+2A8D">>>>, <<"lsimg;", <<"U+2A8F">>>>,
    <<"lsqb;", <<"[">>>>, <<"lsquo;", <<"U+2018">>>>,
    <<"lsquor;", <<"U+201A">>>>, <<"Lstrok;", <<"U+0141">>>>,
    <<"lstrok;", <<"U+0142">>>>, <<"LT", <<"<">>>>, <<"lt", <<"<">>>>,
    <<"LT;", <<"<">>>>, <<"Lt;", <<"U+226A">>>>, <<"lt;", <<"<">>>>,
    <<"ltcc;", <<"U+2AA6">>>>, <<"ltcir;", <<"U+2A79">>>>,
    <<"ltdot;", <<"U+22D6">>>>, <<"lthree;", <<"U+22CB">>>>,
    <<"ltimes;", <<"U+22C9">>>>, <<"ltlarr;", <<"U+2976">>>>,
    <<"ltquest;", <<"U+2A7B">>>>, <<"ltri;", <<"U+25C3">>>>,
    <<"ltrie;", <<"U+22B4">>>>, <<"ltrif;", <<"U+25C2">>>>,
    <<"ltrPar;", <<"U+2996">>>>, <<"lurdshar;", <<"U+294A">>>>,
    <<"luruhar;", <<"U+2966">>>>, <<"lvertneqq;", <<"U+2268", "U+FE00">>>>,
    <<"lvnE;", <<"U+2268", "U+FE00">>>>, <<"macr", <<"U+00AF">>>>,
    <<"macr;", <<"U+00AF">>>>, <<"male;", <<"U+2642">>>>,
    <<"malt;", <<"U+2720">>>>, <<"maltese;", <<"U+2720">>>>,
    <<"Map;", <<"U+2905">>>>, <<"map;", <<"U+21A6">>>>,
    <<"mapsto;", <<"U+21A6">>>>, <<"mapstodown;", <<"U+21A7">>>>,
    <<"mapstoleft;", <<"U+21A4">>>>, <<"mapstoup;", <<"U+21A5">>>>,
    <<"marker;", <<"U+25AE">>>>, <<"mcomma;", <<"U+2A29">>>>,
    <<"Mcy;", <<"U+041C">>>>, <<"mcy;", <<"U+043C">>>>,
    <<"mdash;", <<"U+2014">>>>, <<"mDDot;", <<"U+223A">>>>,
    <<"measuredangle;", <<"U+2221">>>>, <<"MediumSpace;", <<"U+205F">>>>,
    <<"Mellintrf;", <<"U+2133">>>>, <<"Mfr;", <<"U+1D510">>>>,
    <<"mfr;", <<"U+1D52A">>>>, <<"mho;", <<"U+2127">>>>,
    <<"micro", <<"U+00B5">>>>, <<"micro;", <<"U+00B5">>>>,
    <<"mid;", <<"U+2223">>>>, <<"midast;", <<"*">>>>,
    <<"midcir;", <<"U+2AF0">>>>, <<"middot", <<"U+00B7">>>>,
    <<"middot;", <<"U+00B7">>>>, <<"minus;", <<"U+2212">>>>,
    <<"minusb;", <<"U+229F">>>>, <<"minusd;", <<"U+2238">>>>,
    <<"minusdu;", <<"U+2A2A">>>>, <<"MinusPlus;", <<"U+2213">>>>,
    <<"mlcp;", <<"U+2ADB">>>>, <<"mldr;", <<"U+2026">>>>,
    <<"mnplus;", <<"U+2213">>>>, <<"models;", <<"U+22A7">>>>,
    <<"Mopf;", <<"U+1D544">>>>, <<"mopf;", <<"U+1D55E">>>>,
    <<"mp;", <<"U+2213">>>>, <<"Mscr;", <<"U+2133">>>>,
    <<"mscr;", <<"U+1D4C2">>>>, <<"mstpos;", <<"U+223E">>>>,
    <<"Mu;", <<"U+039C">>>>, <<"mu;", <<"U+03BC">>>>,
    <<"multimap;", <<"U+22B8">>>>, <<"mumap;", <<"U+22B8">>>>,
    <<"nabla;", <<"U+2207">>>>, <<"Nacute;", <<"U+0143">>>>,
    <<"nacute;", <<"U+0144">>>>, <<"nang;", <<"U+2220", "U+20D2">>>>,
    <<"nap;", <<"U+2249">>>>, <<"napE;", <<"U+2A70", "U+0338">>>>,
    <<"napid;", <<"U+224B", "U+0338">>>>, <<"napos;", <<"U+0149">>>>,
    <<"napprox;", <<"U+2249">>>>, <<"natur;", <<"U+266E">>>>,
    <<"natural;", <<"U+266E">>>>, <<"naturals;", <<"U+2115">>>>,
    <<"nbsp", <<"U+00A0">>>>, <<"nbsp;", <<"U+00A0">>>>,
    <<"nbump;", <<"U+224E", "U+0338">>>>,
    <<"nbumpe;", <<"U+224F", "U+0338">>>>, <<"ncap;", <<"U+2A43">>>>,
    <<"Ncaron;", <<"U+0147">>>>, <<"ncaron;", <<"U+0148">>>>,
    <<"Ncedil;", <<"U+0145">>>>, <<"ncedil;", <<"U+0146">>>>,
    <<"ncong;", <<"U+2247">>>>, <<"ncongdot;", <<"U+2A6D", "U+0338">>>>,
    <<"ncup;", <<"U+2A42">>>>, <<"Ncy;", <<"U+041D">>>>,
    <<"ncy;", <<"U+043D">>>>, <<"ndash;", <<"U+2013">>>>,
    <<"ne;", <<"U+2260">>>>, <<"nearhk;", <<"U+2924">>>>,
    <<"neArr;", <<"U+21D7">>>>, <<"nearr;", <<"U+2197">>>>,
    <<"nearrow;", <<"U+2197">>>>, <<"nedot;", <<"U+2250", "U+0338">>>>,
    <<"NegativeMediumSpace;", <<"U+200B">>>>,
    <<"NegativeThickSpace;", <<"U+200B">>>>,
    <<"NegativeThinSpace;", <<"U+200B">>>>,
    <<"NegativeVeryThinSpace;", <<"U+200B">>>>, <<"nequiv;", <<"U+2262">>>>,
    <<"nesear;", <<"U+2928">>>>, <<"nesim;", <<"U+2242", "U+0338">>>>,
    <<"NestedGreaterGreater;", <<"U+226B">>>>,
    <<"NestedLessLess;", <<"U+226A">>>>, <<"NewLine;", <<"\n">>>>,
    <<"nexist;", <<"U+2204">>>>, <<"nexists;", <<"U+2204">>>>,
    <<"Nfr;", <<"U+1D511">>>>, <<"nfr;", <<"U+1D52B">>>>,
    <<"ngE;", <<"U+2267", "U+0338">>>>, <<"nge;", <<"U+2271">>>>,
    <<"ngeq;", <<"U+2271">>>>, <<"ngeqq;", <<"U+2267", "U+0338">>>>,
    <<"ngeqslant;", <<"U+2A7E", "U+0338">>>>,
    <<"nges;", <<"U+2A7E", "U+0338">>>>, <<"nGg;", <<"U+22D9", "U+0338">>>>,
    <<"ngsim;", <<"U+2275">>>>, <<"nGt;", <<"U+226B", "U+20D2">>>>,
    <<"ngt;", <<"U+226F">>>>, <<"ngtr;", <<"U+226F">>>>,
    <<"nGtv;", <<"U+226B", "U+0338">>>>, <<"nhArr;", <<"U+21CE">>>>,
    <<"nharr;", <<"U+21AE">>>>, <<"nhpar;", <<"U+2AF2">>>>,
    <<"ni;", <<"U+220B">>>>, <<"nis;", <<"U+22FC">>>>,
    <<"nisd;", <<"U+22FA">>>>, <<"niv;", <<"U+220B">>>>,
    <<"NJcy;", <<"U+040A">>>>, <<"njcy;", <<"U+045A">>>>,
    <<"nlArr;", <<"U+21CD">>>>, <<"nlarr;", <<"U+219A">>>>,
    <<"nldr;", <<"U+2025">>>>, <<"nlE;", <<"U+2266", "U+0338">>>>,
    <<"nle;", <<"U+2270">>>>, <<"nLeftarrow;", <<"U+21CD">>>>,
    <<"nleftarrow;", <<"U+219A">>>>, <<"nLeftrightarrow;", <<"U+21CE">>>>,
    <<"nleftrightarrow;", <<"U+21AE">>>>, <<"nleq;", <<"U+2270">>>>,
    <<"nleqq;", <<"U+2266", "U+0338">>>>,
    <<"nleqslant;", <<"U+2A7D", "U+0338">>>>,
    <<"nles;", <<"U+2A7D", "U+0338">>>>, <<"nless;", <<"U+226E">>>>,
    <<"nLl;", <<"U+22D8", "U+0338">>>>, <<"nlsim;", <<"U+2274">>>>,
    <<"nLt;", <<"U+226A", "U+20D2">>>>, <<"nlt;", <<"U+226E">>>>,
    <<"nltri;", <<"U+22EA">>>>, <<"nltrie;", <<"U+22EC">>>>,
    <<"nLtv;", <<"U+226A", "U+0338">>>>, <<"nmid;", <<"U+2224">>>>,
    <<"NoBreak;", <<"U+2060">>>>, <<"NonBreakingSpace;", <<"U+00A0">>>>,
    <<"Nopf;", <<"U+2115">>>>, <<"nopf;", <<"U+1D55F">>>>,
    <<"not", <<"U+00AC">>>>, <<"Not;", <<"U+2AEC">>>>,
    <<"not;", <<"U+00AC">>>>, <<"NotCongruent;", <<"U+2262">>>>,
    <<"NotCupCap;", <<"U+226D">>>>,
    <<"NotDoubleVerticalBar;", <<"U+2226">>>>,
    <<"NotElement;", <<"U+2209">>>>, <<"NotEqual;", <<"U+2260">>>>,
    <<"NotEqualTilde;", <<"U+2242", "U+0338">>>>,
    <<"NotExists;", <<"U+2204">>>>, <<"NotGreater;", <<"U+226F">>>>,
    <<"NotGreaterEqual;", <<"U+2271">>>>,
    <<"NotGreaterFullEqual;", <<"U+2267", "U+0338">>>>,
    <<"NotGreaterGreater;", <<"U+226B", "U+0338">>>>,
    <<"NotGreaterLess;", <<"U+2279">>>>,
    <<"NotGreaterSlantEqual;", <<"U+2A7E", "U+0338">>>>,
    <<"NotGreaterTilde;", <<"U+2275">>>>,
    <<"NotHumpDownHump;", <<"U+224E", "U+0338">>>>,
    <<"NotHumpEqual;", <<"U+224F", "U+0338">>>>, <<"notin;", <<"U+2209">>>>,
    <<"notindot;", <<"U+22F5", "U+0338">>>>,
    <<"notinE;", <<"U+22F9", "U+0338">>>>, <<"notinva;", <<"U+2209">>>>,
    <<"notinvb;", <<"U+22F7">>>>, <<"notinvc;", <<"U+22F6">>>>,
    <<"NotLeftTriangle;", <<"U+22EA">>>>,
    <<"NotLeftTriangleBar;", <<"U+29CF", "U+0338">>>>,
    <<"NotLeftTriangleEqual;", <<"U+22EC">>>>, <<"NotLess;", <<"U+226E">>>>,
    <<"NotLessEqual;", <<"U+2270">>>>, <<"NotLessGreater;", <<"U+2278">>>>,
    <<"NotLessLess;", <<"U+226A", "U+0338">>>>,
    <<"NotLessSlantEqual;", <<"U+2A7D", "U+0338">>>>,
    <<"NotLessTilde;", <<"U+2274">>>>,
    <<"NotNestedGreaterGreater;", <<"U+2AA2", "U+0338">>>>,
    <<"NotNestedLessLess;", <<"U+2AA1", "U+0338">>>>,
    <<"notni;", <<"U+220C">>>>, <<"notniva;", <<"U+220C">>>>,
    <<"notnivb;", <<"U+22FE">>>>, <<"notnivc;", <<"U+22FD">>>>,
    <<"NotPrecedes;", <<"U+2280">>>>,
    <<"NotPrecedesEqual;", <<"U+2AAF", "U+0338">>>>,
    <<"NotPrecedesSlantEqual;", <<"U+22E0">>>>,
    <<"NotReverseElement;", <<"U+220C">>>>,
    <<"NotRightTriangle;", <<"U+22EB">>>>,
    <<"NotRightTriangleBar;", <<"U+29D0", "U+0338">>>>,
    <<"NotRightTriangleEqual;", <<"U+22ED">>>>,
    <<"NotSquareSubset;", <<"U+228F", "U+0338">>>>,
    <<"NotSquareSubsetEqual;", <<"U+22E2">>>>,
    <<"NotSquareSuperset;", <<"U+2290", "U+0338">>>>,
    <<"NotSquareSupersetEqual;", <<"U+22E3">>>>,
    <<"NotSubset;", <<"U+2282", "U+20D2">>>>,
    <<"NotSubsetEqual;", <<"U+2288">>>>, <<"NotSucceeds;", <<"U+2281">>>>,
    <<"NotSucceedsEqual;", <<"U+2AB0", "U+0338">>>>,
    <<"NotSucceedsSlantEqual;", <<"U+22E1">>>>,
    <<"NotSucceedsTilde;", <<"U+227F", "U+0338">>>>,
    <<"NotSuperset;", <<"U+2283", "U+20D2">>>>,
    <<"NotSupersetEqual;", <<"U+2289">>>>, <<"NotTilde;", <<"U+2241">>>>,
    <<"NotTildeEqual;", <<"U+2244">>>>,
    <<"NotTildeFullEqual;", <<"U+2247">>>>,
    <<"NotTildeTilde;", <<"U+2249">>>>, <<"NotVerticalBar;", <<"U+2224">>>>,
    <<"npar;", <<"U+2226">>>>, <<"nparallel;", <<"U+2226">>>>,
    <<"nparsl;", <<"U+2AFD", "U+20E5">>>>,
    <<"npart;", <<"U+2202", "U+0338">>>>, <<"npolint;", <<"U+2A14">>>>,
    <<"npr;", <<"U+2280">>>>, <<"nprcue;", <<"U+22E0">>>>,
    <<"npre;", <<"U+2AAF", "U+0338">>>>, <<"nprec;", <<"U+2280">>>>,
    <<"npreceq;", <<"U+2AAF", "U+0338">>>>, <<"nrArr;", <<"U+21CF">>>>,
    <<"nrarr;", <<"U+219B">>>>, <<"nrarrc;", <<"U+2933", "U+0338">>>>,
    <<"nrarrw;", <<"U+219D", "U+0338">>>>, <<"nRightarrow;", <<"U+21CF">>>>,
    <<"nrightarrow;", <<"U+219B">>>>, <<"nrtri;", <<"U+22EB">>>>,
    <<"nrtrie;", <<"U+22ED">>>>, <<"nsc;", <<"U+2281">>>>,
    <<"nsccue;", <<"U+22E1">>>>, <<"nsce;", <<"U+2AB0", "U+0338">>>>,
    <<"Nscr;", <<"U+1D4A9">>>>, <<"nscr;", <<"U+1D4C3">>>>,
    <<"nshortmid;", <<"U+2224">>>>, <<"nshortparallel;", <<"U+2226">>>>,
    <<"nsim;", <<"U+2241">>>>, <<"nsime;", <<"U+2244">>>>,
    <<"nsimeq;", <<"U+2244">>>>, <<"nsmid;", <<"U+2224">>>>,
    <<"nspar;", <<"U+2226">>>>, <<"nsqsube;", <<"U+22E2">>>>,
    <<"nsqsupe;", <<"U+22E3">>>>, <<"nsub;", <<"U+2284">>>>,
    <<"nsubE;", <<"U+2AC5", "U+0338">>>>, <<"nsube;", <<"U+2288">>>>,
    <<"nsubset;", <<"U+2282", "U+20D2">>>>, <<"nsubseteq;", <<"U+2288">>>>,
    <<"nsubseteqq;", <<"U+2AC5", "U+0338">>>>, <<"nsucc;", <<"U+2281">>>>,
    <<"nsucceq;", <<"U+2AB0", "U+0338">>>>, <<"nsup;", <<"U+2285">>>>,
    <<"nsupE;", <<"U+2AC6", "U+0338">>>>, <<"nsupe;", <<"U+2289">>>>,
    <<"nsupset;", <<"U+2283", "U+20D2">>>>, <<"nsupseteq;", <<"U+2289">>>>,
    <<"nsupseteqq;", <<"U+2AC6", "U+0338">>>>, <<"ntgl;", <<"U+2279">>>>,
    <<"Ntilde", <<"U+00D1">>>>, <<"ntilde", <<"U+00F1">>>>,
    <<"Ntilde;", <<"U+00D1">>>>, <<"ntilde;", <<"U+00F1">>>>,
    <<"ntlg;", <<"U+2278">>>>, <<"ntriangleleft;", <<"U+22EA">>>>,
    <<"ntrianglelefteq;", <<"U+22EC">>>>,
    <<"ntriangleright;", <<"U+22EB">>>>,
    <<"ntrianglerighteq;", <<"U+22ED">>>>, <<"Nu;", <<"U+039D">>>>,
    <<"nu;", <<"U+03BD">>>>, <<"num;", <<"#">>>>,
    <<"numero;", <<"U+2116">>>>, <<"numsp;", <<"U+2007">>>>,
    <<"nvap;", <<"U+224D", "U+20D2">>>>, <<"nVDash;", <<"U+22AF">>>>,
    <<"nVdash;", <<"U+22AE">>>>, <<"nvDash;", <<"U+22AD">>>>,
    <<"nvdash;", <<"U+22AC">>>>, <<"nvge;", <<"U+2265", "U+20D2">>>>,
    <<"nvgt;", <<">", "U+20D2">>>>, <<"nvHarr;", <<"U+2904">>>>,
    <<"nvinfin;", <<"U+29DE">>>>, <<"nvlArr;", <<"U+2902">>>>,
    <<"nvle;", <<"U+2264", "U+20D2">>>>, <<"nvlt;", <<"<", "U+20D2">>>>,
    <<"nvltrie;", <<"U+22B4", "U+20D2">>>>, <<"nvrArr;", <<"U+2903">>>>,
    <<"nvrtrie;", <<"U+22B5", "U+20D2">>>>,
    <<"nvsim;", <<"U+223C", "U+20D2">>>>, <<"nwarhk;", <<"U+2923">>>>,
    <<"nwArr;", <<"U+21D6">>>>, <<"nwarr;", <<"U+2196">>>>,
    <<"nwarrow;", <<"U+2196">>>>, <<"nwnear;", <<"U+2927">>>>,
    <<"Oacute", <<"U+00D3">>>>, <<"oacute", <<"U+00F3">>>>,
    <<"Oacute;", <<"U+00D3">>>>, <<"oacute;", <<"U+00F3">>>>,
    <<"oast;", <<"U+229B">>>>, <<"ocir;", <<"U+229A">>>>,
    <<"Ocirc", <<"U+00D4">>>>, <<"ocirc", <<"U+00F4">>>>,
    <<"Ocirc;", <<"U+00D4">>>>, <<"ocirc;", <<"U+00F4">>>>,
    <<"Ocy;", <<"U+041E">>>>, <<"ocy;", <<"U+043E">>>>,
    <<"odash;", <<"U+229D">>>>, <<"Odblac;", <<"U+0150">>>>,
    <<"odblac;", <<"U+0151">>>>, <<"odiv;", <<"U+2A38">>>>,
    <<"odot;", <<"U+2299">>>>, <<"odsold;", <<"U+29BC">>>>,
    <<"OElig;", <<"U+0152">>>>, <<"oelig;", <<"U+0153">>>>,
    <<"ofcir;", <<"U+29BF">>>>, <<"Ofr;", <<"U+1D512">>>>,
    <<"ofr;", <<"U+1D52C">>>>, <<"ogon;", <<"U+02DB">>>>,
    <<"Ograve", <<"U+00D2">>>>, <<"ograve", <<"U+00F2">>>>,
    <<"Ograve;", <<"U+00D2">>>>, <<"ograve;", <<"U+00F2">>>>,
    <<"ogt;", <<"U+29C1">>>>, <<"ohbar;", <<"U+29B5">>>>,
    <<"ohm;", <<"U+03A9">>>>, <<"oint;", <<"U+222E">>>>,
    <<"olarr;", <<"U+21BA">>>>, <<"olcir;", <<"U+29BE">>>>,
    <<"olcross;", <<"U+29BB">>>>, <<"oline;", <<"U+203E">>>>,
    <<"olt;", <<"U+29C0">>>>, <<"Omacr;", <<"U+014C">>>>,
    <<"omacr;", <<"U+014D">>>>, <<"Omega;", <<"U+03A9">>>>,
    <<"omega;", <<"U+03C9">>>>, <<"Omicron;", <<"U+039F">>>>,
    <<"omicron;", <<"U+03BF">>>>, <<"omid;", <<"U+29B6">>>>,
    <<"ominus;", <<"U+2296">>>>, <<"Oopf;", <<"U+1D546">>>>,
    <<"oopf;", <<"U+1D560">>>>, <<"opar;", <<"U+29B7">>>>,
    <<"OpenCurlyDoubleQuote;", <<"U+201C">>>>,
    <<"OpenCurlyQuote;", <<"U+2018">>>>, <<"operp;", <<"U+29B9">>>>,
    <<"oplus;", <<"U+2295">>>>, <<"Or;", <<"U+2A54">>>>,
    <<"or;", <<"U+2228">>>>, <<"orarr;", <<"U+21BB">>>>,
    <<"ord;", <<"U+2A5D">>>>, <<"order;", <<"U+2134">>>>,
    <<"orderof;", <<"U+2134">>>>, <<"ordf", <<"U+00AA">>>>,
    <<"ordf;", <<"U+00AA">>>>, <<"ordm", <<"U+00BA">>>>,
    <<"ordm;", <<"U+00BA">>>>, <<"origof;", <<"U+22B6">>>>,
    <<"oror;", <<"U+2A56">>>>, <<"orslope;", <<"U+2A57">>>>,
    <<"orv;", <<"U+2A5B">>>>, <<"oS;", <<"U+24C8">>>>,
    <<"Oscr;", <<"U+1D4AA">>>>, <<"oscr;", <<"U+2134">>>>,
    <<"Oslash", <<"U+00D8">>>>, <<"oslash", <<"U+00F8">>>>,
    <<"Oslash;", <<"U+00D8">>>>, <<"oslash;", <<"U+00F8">>>>,
    <<"osol;", <<"U+2298">>>>, <<"Otilde", <<"U+00D5">>>>,
    <<"otilde", <<"U+00F5">>>>, <<"Otilde;", <<"U+00D5">>>>,
    <<"otilde;", <<"U+00F5">>>>, <<"Otimes;", <<"U+2A37">>>>,
    <<"otimes;", <<"U+2297">>>>, <<"otimesas;", <<"U+2A36">>>>,
    <<"Ouml", <<"U+00D6">>>>, <<"ouml", <<"U+00F6">>>>,
    <<"Ouml;", <<"U+00D6">>>>, <<"ouml;", <<"U+00F6">>>>,
    <<"ovbar;", <<"U+233D">>>>, <<"OverBar;", <<"U+203E">>>>,
    <<"OverBrace;", <<"U+23DE">>>>, <<"OverBracket;", <<"U+23B4">>>>,
    <<"OverParenthesis;", <<"U+23DC">>>>, <<"par;", <<"U+2225">>>>,
    <<"para", <<"U+00B6">>>>, <<"para;", <<"U+00B6">>>>,
    <<"parallel;", <<"U+2225">>>>, <<"parsim;", <<"U+2AF3">>>>,
    <<"parsl;", <<"U+2AFD">>>>, <<"part;", <<"U+2202">>>>,
    <<"PartialD;", <<"U+2202">>>>, <<"Pcy;", <<"U+041F">>>>,
    <<"pcy;", <<"U+043F">>>>, <<"percnt;", <<"%">>>>, <<"period;", <<".">>>>,
    <<"permil;", <<"U+2030">>>>, <<"perp;", <<"U+22A5">>>>,
    <<"pertenk;", <<"U+2031">>>>, <<"Pfr;", <<"U+1D513">>>>,
    <<"pfr;", <<"U+1D52D">>>>, <<"Phi;", <<"U+03A6">>>>,
    <<"phi;", <<"U+03C6">>>>, <<"phiv;", <<"U+03D5">>>>,
    <<"phmmat;", <<"U+2133">>>>, <<"phone;", <<"U+260E">>>>,
    <<"Pi;", <<"U+03A0">>>>, <<"pi;", <<"U+03C0">>>>,
    <<"pitchfork;", <<"U+22D4">>>>, <<"piv;", <<"U+03D6">>>>,
    <<"planck;", <<"U+210F">>>>, <<"planckh;", <<"U+210E">>>>,
    <<"plankv;", <<"U+210F">>>>, <<"plus;", <<"+">>>>,
    <<"plusacir;", <<"U+2A23">>>>, <<"plusb;", <<"U+229E">>>>,
    <<"pluscir;", <<"U+2A22">>>>, <<"plusdo;", <<"U+2214">>>>,
    <<"plusdu;", <<"U+2A25">>>>, <<"pluse;", <<"U+2A72">>>>,
    <<"PlusMinus;", <<"U+00B1">>>>, <<"plusmn", <<"U+00B1">>>>,
    <<"plusmn;", <<"U+00B1">>>>, <<"plussim;", <<"U+2A26">>>>,
    <<"plustwo;", <<"U+2A27">>>>, <<"pm;", <<"U+00B1">>>>,
    <<"Poincareplane;", <<"U+210C">>>>, <<"pointint;", <<"U+2A15">>>>,
    <<"Popf;", <<"U+2119">>>>, <<"popf;", <<"U+1D561">>>>,
    <<"pound", <<"U+00A3">>>>, <<"pound;", <<"U+00A3">>>>,
    <<"Pr;", <<"U+2ABB">>>>, <<"pr;", <<"U+227A">>>>,
    <<"prap;", <<"U+2AB7">>>>, <<"prcue;", <<"U+227C">>>>,
    <<"prE;", <<"U+2AB3">>>>, <<"pre;", <<"U+2AAF">>>>,
    <<"prec;", <<"U+227A">>>>, <<"precapprox;", <<"U+2AB7">>>>,
    <<"preccurlyeq;", <<"U+227C">>>>, <<"Precedes;", <<"U+227A">>>>,
    <<"PrecedesEqual;", <<"U+2AAF">>>>,
    <<"PrecedesSlantEqual;", <<"U+227C">>>>,
    <<"PrecedesTilde;", <<"U+227E">>>>, <<"preceq;", <<"U+2AAF">>>>,
    <<"precnapprox;", <<"U+2AB9">>>>, <<"precneqq;", <<"U+2AB5">>>>,
    <<"precnsim;", <<"U+22E8">>>>, <<"precsim;", <<"U+227E">>>>,
    <<"Prime;", <<"U+2033">>>>, <<"prime;", <<"U+2032">>>>,
    <<"primes;", <<"U+2119">>>>, <<"prnap;", <<"U+2AB9">>>>,
    <<"prnE;", <<"U+2AB5">>>>, <<"prnsim;", <<"U+22E8">>>>,
    <<"prod;", <<"U+220F">>>>, <<"Product;", <<"U+220F">>>>,
    <<"profalar;", <<"U+232E">>>>, <<"profline;", <<"U+2312">>>>,
    <<"profsurf;", <<"U+2313">>>>, <<"prop;", <<"U+221D">>>>,
    <<"Proportion;", <<"U+2237">>>>, <<"Proportional;", <<"U+221D">>>>,
    <<"propto;", <<"U+221D">>>>, <<"prsim;", <<"U+227E">>>>,
    <<"prurel;", <<"U+22B0">>>>, <<"Pscr;", <<"U+1D4AB">>>>,
    <<"pscr;", <<"U+1D4C5">>>>, <<"Psi;", <<"U+03A8">>>>,
    <<"psi;", <<"U+03C8">>>>, <<"puncsp;", <<"U+2008">>>>,
    <<"Qfr;", <<"U+1D514">>>>, <<"qfr;", <<"U+1D52E">>>>,
    <<"qint;", <<"U+2A0C">>>>, <<"Qopf;", <<"U+211A">>>>,
    <<"qopf;", <<"U+1D562">>>>, <<"qprime;", <<"U+2057">>>>,
    <<"Qscr;", <<"U+1D4AC">>>>, <<"qscr;", <<"U+1D4C6">>>>,
    <<"quaternions;", <<"U+210D">>>>, <<"quatint;", <<"U+2A16">>>>,
    <<"quest;", <<"?">>>>, <<"questeq;", <<"U+225F">>>>,
    <<"QUOT", <<"\"">>>>, <<"quot", <<"\"">>>>, <<"QUOT;", <<"\"">>>>,
    <<"quot;", <<"\"">>>>, <<"rAarr;", <<"U+21DB">>>>,
    <<"race;", <<"U+223D", "U+0331">>>>, <<"Racute;", <<"U+0154">>>>,
    <<"racute;", <<"U+0155">>>>, <<"radic;", <<"U+221A">>>>,
    <<"raemptyv;", <<"U+29B3">>>>, <<"Rang;", <<"U+27EB">>>>,
    <<"rang;", <<"U+27E9">>>>, <<"rangd;", <<"U+2992">>>>,
    <<"range;", <<"U+29A5">>>>, <<"rangle;", <<"U+27E9">>>>,
    <<"raquo", <<"U+00BB">>>>, <<"raquo;", <<"U+00BB">>>>,
    <<"Rarr;", <<"U+21A0">>>>, <<"rArr;", <<"U+21D2">>>>,
    <<"rarr;", <<"U+2192">>>>, <<"rarrap;", <<"U+2975">>>>,
    <<"rarrb;", <<"U+21E5">>>>, <<"rarrbfs;", <<"U+2920">>>>,
    <<"rarrc;", <<"U+2933">>>>, <<"rarrfs;", <<"U+291E">>>>,
    <<"rarrhk;", <<"U+21AA">>>>, <<"rarrlp;", <<"U+21AC">>>>,
    <<"rarrpl;", <<"U+2945">>>>, <<"rarrsim;", <<"U+2974">>>>,
    <<"Rarrtl;", <<"U+2916">>>>, <<"rarrtl;", <<"U+21A3">>>>,
    <<"rarrw;", <<"U+219D">>>>, <<"rAtail;", <<"U+291C">>>>,
    <<"ratail;", <<"U+291A">>>>, <<"ratio;", <<"U+2236">>>>,
    <<"rationals;", <<"U+211A">>>>, <<"RBarr;", <<"U+2910">>>>,
    <<"rBarr;", <<"U+290F">>>>, <<"rbarr;", <<"U+290D">>>>,
    <<"rbbrk;", <<"U+2773">>>>, <<"rbrace;", <<"}">>>>,
    <<"rbrack;", <<"]">>>>, <<"rbrke;", <<"U+298C">>>>,
    <<"rbrksld;", <<"U+298E">>>>, <<"rbrkslu;", <<"U+2990">>>>,
    <<"Rcaron;", <<"U+0158">>>>, <<"rcaron;", <<"U+0159">>>>,
    <<"Rcedil;", <<"U+0156">>>>, <<"rcedil;", <<"U+0157">>>>,
    <<"rceil;", <<"U+2309">>>>, <<"rcub;", <<"}">>>>,
    <<"Rcy;", <<"U+0420">>>>, <<"rcy;", <<"U+0440">>>>,
    <<"rdca;", <<"U+2937">>>>, <<"rdldhar;", <<"U+2969">>>>,
    <<"rdquo;", <<"U+201D">>>>, <<"rdquor;", <<"U+201D">>>>,
    <<"rdsh;", <<"U+21B3">>>>, <<"Re;", <<"U+211C">>>>,
    <<"real;", <<"U+211C">>>>, <<"realine;", <<"U+211B">>>>,
    <<"realpart;", <<"U+211C">>>>, <<"reals;", <<"U+211D">>>>,
    <<"rect;", <<"U+25AD">>>>, <<"REG", <<"U+00AE">>>>,
    <<"reg", <<"U+00AE">>>>, <<"REG;", <<"U+00AE">>>>,
    <<"reg;", <<"U+00AE">>>>, <<"ReverseElement;", <<"U+220B">>>>,
    <<"ReverseEquilibrium;", <<"U+21CB">>>>,
    <<"ReverseUpEquilibrium;", <<"U+296F">>>>, <<"rfisht;", <<"U+297D">>>>,
    <<"rfloor;", <<"U+230B">>>>, <<"Rfr;", <<"U+211C">>>>,
    <<"rfr;", <<"U+1D52F">>>>, <<"rHar;", <<"U+2964">>>>,
    <<"rhard;", <<"U+21C1">>>>, <<"rharu;", <<"U+21C0">>>>,
    <<"rharul;", <<"U+296C">>>>, <<"Rho;", <<"U+03A1">>>>,
    <<"rho;", <<"U+03C1">>>>, <<"rhov;", <<"U+03F1">>>>,
    <<"RightAngleBracket;", <<"U+27E9">>>>, <<"RightArrow;", <<"U+2192">>>>,
    <<"Rightarrow;", <<"U+21D2">>>>, <<"rightarrow;", <<"U+2192">>>>,
    <<"RightArrowBar;", <<"U+21E5">>>>,
    <<"RightArrowLeftArrow;", <<"U+21C4">>>>,
    <<"rightarrowtail;", <<"U+21A3">>>>, <<"RightCeiling;", <<"U+2309">>>>,
    <<"RightDoubleBracket;", <<"U+27E7">>>>,
    <<"RightDownTeeVector;", <<"U+295D">>>>,
    <<"RightDownVector;", <<"U+21C2">>>>,
    <<"RightDownVectorBar;", <<"U+2955">>>>, <<"RightFloor;", <<"U+230B">>>>,
    <<"rightharpoondown;", <<"U+21C1">>>>,
    <<"rightharpoonup;", <<"U+21C0">>>>,
    <<"rightleftarrows;", <<"U+21C4">>>>,
    <<"rightleftharpoons;", <<"U+21CC">>>>,
    <<"rightrightarrows;", <<"U+21C9">>>>,
    <<"rightsquigarrow;", <<"U+219D">>>>, <<"RightTee;", <<"U+22A2">>>>,
    <<"RightTeeArrow;", <<"U+21A6">>>>, <<"RightTeeVector;", <<"U+295B">>>>,
    <<"rightthreetimes;", <<"U+22CC">>>>, <<"RightTriangle;", <<"U+22B3">>>>,
    <<"RightTriangleBar;", <<"U+29D0">>>>,
    <<"RightTriangleEqual;", <<"U+22B5">>>>,
    <<"RightUpDownVector;", <<"U+294F">>>>,
    <<"RightUpTeeVector;", <<"U+295C">>>>,
    <<"RightUpVector;", <<"U+21BE">>>>,
    <<"RightUpVectorBar;", <<"U+2954">>>>, <<"RightVector;", <<"U+21C0">>>>,
    <<"RightVectorBar;", <<"U+2953">>>>, <<"ring;", <<"U+02DA">>>>,
    <<"risingdotseq;", <<"U+2253">>>>, <<"rlarr;", <<"U+21C4">>>>,
    <<"rlhar;", <<"U+21CC">>>>, <<"rlm;", <<"U+200F">>>>,
    <<"rmoust;", <<"U+23B1">>>>, <<"rmoustache;", <<"U+23B1">>>>,
    <<"rnmid;", <<"U+2AEE">>>>, <<"roang;", <<"U+27ED">>>>,
    <<"roarr;", <<"U+21FE">>>>, <<"robrk;", <<"U+27E7">>>>,
    <<"ropar;", <<"U+2986">>>>, <<"Ropf;", <<"U+211D">>>>,
    <<"ropf;", <<"U+1D563">>>>, <<"roplus;", <<"U+2A2E">>>>,
    <<"rotimes;", <<"U+2A35">>>>, <<"RoundImplies;", <<"U+2970">>>>,
    <<"rpar;", <<")">>>>, <<"rpargt;", <<"U+2994">>>>,
    <<"rppolint;", <<"U+2A12">>>>, <<"rrarr;", <<"U+21C9">>>>,
    <<"Rrightarrow;", <<"U+21DB">>>>, <<"rsaquo;", <<"U+203A">>>>,
    <<"Rscr;", <<"U+211B">>>>, <<"rscr;", <<"U+1D4C7">>>>,
    <<"Rsh;", <<"U+21B1">>>>, <<"rsh;", <<"U+21B1">>>>, <<"rsqb;", <<"]">>>>,
    <<"rsquo;", <<"U+2019">>>>, <<"rsquor;", <<"U+2019">>>>,
    <<"rthree;", <<"U+22CC">>>>, <<"rtimes;", <<"U+22CA">>>>,
    <<"rtri;", <<"U+25B9">>>>, <<"rtrie;", <<"U+22B5">>>>,
    <<"rtrif;", <<"U+25B8">>>>, <<"rtriltri;", <<"U+29CE">>>>,
    <<"RuleDelayed;", <<"U+29F4">>>>, <<"ruluhar;", <<"U+2968">>>>,
    <<"rx;", <<"U+211E">>>>, <<"Sacute;", <<"U+015A">>>>,
    <<"sacute;", <<"U+015B">>>>, <<"sbquo;", <<"U+201A">>>>,
    <<"Sc;", <<"U+2ABC">>>>, <<"sc;", <<"U+227B">>>>,
    <<"scap;", <<"U+2AB8">>>>, <<"Scaron;", <<"U+0160">>>>,
    <<"scaron;", <<"U+0161">>>>, <<"sccue;", <<"U+227D">>>>,
    <<"scE;", <<"U+2AB4">>>>, <<"sce;", <<"U+2AB0">>>>,
    <<"Scedil;", <<"U+015E">>>>, <<"scedil;", <<"U+015F">>>>,
    <<"Scirc;", <<"U+015C">>>>, <<"scirc;", <<"U+015D">>>>,
    <<"scnap;", <<"U+2ABA">>>>, <<"scnE;", <<"U+2AB6">>>>,
    <<"scnsim;", <<"U+22E9">>>>, <<"scpolint;", <<"U+2A13">>>>,
    <<"scsim;", <<"U+227F">>>>, <<"Scy;", <<"U+0421">>>>,
    <<"scy;", <<"U+0441">>>>, <<"sdot;", <<"U+22C5">>>>,
    <<"sdotb;", <<"U+22A1">>>>, <<"sdote;", <<"U+2A66">>>>,
    <<"searhk;", <<"U+2925">>>>, <<"seArr;", <<"U+21D8">>>>,
    <<"searr;", <<"U+2198">>>>, <<"searrow;", <<"U+2198">>>>,
    <<"sect", <<"U+00A7">>>>, <<"sect;", <<"U+00A7">>>>,
    <<"semi;", <<";">>>>, <<"seswar;", <<"U+2929">>>>,
    <<"setminus;", <<"U+2216">>>>, <<"setmn;", <<"U+2216">>>>,
    <<"sext;", <<"U+2736">>>>, <<"Sfr;", <<"U+1D516">>>>,
    <<"sfr;", <<"U+1D530">>>>, <<"sfrown;", <<"U+2322">>>>,
    <<"sharp;", <<"U+266F">>>>, <<"SHCHcy;", <<"U+0429">>>>,
    <<"shchcy;", <<"U+0449">>>>, <<"SHcy;", <<"U+0428">>>>,
    <<"shcy;", <<"U+0448">>>>, <<"ShortDownArrow;", <<"U+2193">>>>,
    <<"ShortLeftArrow;", <<"U+2190">>>>, <<"shortmid;", <<"U+2223">>>>,
    <<"shortparallel;", <<"U+2225">>>>, <<"ShortRightArrow;", <<"U+2192">>>>,
    <<"ShortUpArrow;", <<"U+2191">>>>, <<"shy", <<"U+00AD">>>>,
    <<"shy;", <<"U+00AD">>>>, <<"Sigma;", <<"U+03A3">>>>,
    <<"sigma;", <<"U+03C3">>>>, <<"sigmaf;", <<"U+03C2">>>>,
    <<"sigmav;", <<"U+03C2">>>>, <<"sim;", <<"U+223C">>>>,
    <<"simdot;", <<"U+2A6A">>>>, <<"sime;", <<"U+2243">>>>,
    <<"simeq;", <<"U+2243">>>>, <<"simg;", <<"U+2A9E">>>>,
    <<"simgE;", <<"U+2AA0">>>>, <<"siml;", <<"U+2A9D">>>>,
    <<"simlE;", <<"U+2A9F">>>>, <<"simne;", <<"U+2246">>>>,
    <<"simplus;", <<"U+2A24">>>>, <<"simrarr;", <<"U+2972">>>>,
    <<"slarr;", <<"U+2190">>>>, <<"SmallCircle;", <<"U+2218">>>>,
    <<"smallsetminus;", <<"U+2216">>>>, <<"smashp;", <<"U+2A33">>>>,
    <<"smeparsl;", <<"U+29E4">>>>, <<"smid;", <<"U+2223">>>>,
    <<"smile;", <<"U+2323">>>>, <<"smt;", <<"U+2AAA">>>>,
    <<"smte;", <<"U+2AAC">>>>, <<"smtes;", <<"U+2AAC", "U+FE00">>>>,
    <<"SOFTcy;", <<"U+042C">>>>, <<"softcy;", <<"U+044C">>>>,
    <<"sol;", <<"/">>>>, <<"solb;", <<"U+29C4">>>>,
    <<"solbar;", <<"U+233F">>>>, <<"Sopf;", <<"U+1D54A">>>>,
    <<"sopf;", <<"U+1D564">>>>, <<"spades;", <<"U+2660">>>>,
    <<"spadesuit;", <<"U+2660">>>>, <<"spar;", <<"U+2225">>>>,
    <<"sqcap;", <<"U+2293">>>>, <<"sqcaps;", <<"U+2293", "U+FE00">>>>,
    <<"sqcup;", <<"U+2294">>>>, <<"sqcups;", <<"U+2294", "U+FE00">>>>,
    <<"Sqrt;", <<"U+221A">>>>, <<"sqsub;", <<"U+228F">>>>,
    <<"sqsube;", <<"U+2291">>>>, <<"sqsubset;", <<"U+228F">>>>,
    <<"sqsubseteq;", <<"U+2291">>>>, <<"sqsup;", <<"U+2290">>>>,
    <<"sqsupe;", <<"U+2292">>>>, <<"sqsupset;", <<"U+2290">>>>,
    <<"sqsupseteq;", <<"U+2292">>>>, <<"squ;", <<"U+25A1">>>>,
    <<"Square;", <<"U+25A1">>>>, <<"square;", <<"U+25A1">>>>,
    <<"SquareIntersection;", <<"U+2293">>>>,
    <<"SquareSubset;", <<"U+228F">>>>,
    <<"SquareSubsetEqual;", <<"U+2291">>>>,
    <<"SquareSuperset;", <<"U+2290">>>>,
    <<"SquareSupersetEqual;", <<"U+2292">>>>,
    <<"SquareUnion;", <<"U+2294">>>>, <<"squarf;", <<"U+25AA">>>>,
    <<"squf;", <<"U+25AA">>>>, <<"srarr;", <<"U+2192">>>>,
    <<"Sscr;", <<"U+1D4AE">>>>, <<"sscr;", <<"U+1D4C8">>>>,
    <<"ssetmn;", <<"U+2216">>>>, <<"ssmile;", <<"U+2323">>>>,
    <<"sstarf;", <<"U+22C6">>>>, <<"Star;", <<"U+22C6">>>>,
    <<"star;", <<"U+2606">>>>, <<"starf;", <<"U+2605">>>>,
    <<"straightepsilon;", <<"U+03F5">>>>, <<"straightphi;", <<"U+03D5">>>>,
    <<"strns;", <<"U+00AF">>>>, <<"Sub;", <<"U+22D0">>>>,
    <<"sub;", <<"U+2282">>>>, <<"subdot;", <<"U+2ABD">>>>,
    <<"subE;", <<"U+2AC5">>>>, <<"sube;", <<"U+2286">>>>,
    <<"subedot;", <<"U+2AC3">>>>, <<"submult;", <<"U+2AC1">>>>,
    <<"subnE;", <<"U+2ACB">>>>, <<"subne;", <<"U+228A">>>>,
    <<"subplus;", <<"U+2ABF">>>>, <<"subrarr;", <<"U+2979">>>>,
    <<"Subset;", <<"U+22D0">>>>, <<"subset;", <<"U+2282">>>>,
    <<"subseteq;", <<"U+2286">>>>, <<"subseteqq;", <<"U+2AC5">>>>,
    <<"SubsetEqual;", <<"U+2286">>>>, <<"subsetneq;", <<"U+228A">>>>,
    <<"subsetneqq;", <<"U+2ACB">>>>, <<"subsim;", <<"U+2AC7">>>>,
    <<"subsub;", <<"U+2AD5">>>>, <<"subsup;", <<"U+2AD3">>>>,
    <<"succ;", <<"U+227B">>>>, <<"succapprox;", <<"U+2AB8">>>>,
    <<"succcurlyeq;", <<"U+227D">>>>, <<"Succeeds;", <<"U+227B">>>>,
    <<"SucceedsEqual;", <<"U+2AB0">>>>,
    <<"SucceedsSlantEqual;", <<"U+227D">>>>,
    <<"SucceedsTilde;", <<"U+227F">>>>, <<"succeq;", <<"U+2AB0">>>>,
    <<"succnapprox;", <<"U+2ABA">>>>, <<"succneqq;", <<"U+2AB6">>>>,
    <<"succnsim;", <<"U+22E9">>>>, <<"succsim;", <<"U+227F">>>>,
    <<"SuchThat;", <<"U+220B">>>>, <<"Sum;", <<"U+2211">>>>,
    <<"sum;", <<"U+2211">>>>, <<"sung;", <<"U+266A">>>>,
    <<"sup1", <<"U+00B9">>>>, <<"sup1;", <<"U+00B9">>>>,
    <<"sup2", <<"U+00B2">>>>, <<"sup2;", <<"U+00B2">>>>,
    <<"sup3", <<"U+00B3">>>>, <<"sup3;", <<"U+00B3">>>>,
    <<"Sup;", <<"U+22D1">>>>, <<"sup;", <<"U+2283">>>>,
    <<"supdot;", <<"U+2ABE">>>>, <<"supdsub;", <<"U+2AD8">>>>,
    <<"supE;", <<"U+2AC6">>>>, <<"supe;", <<"U+2287">>>>,
    <<"supedot;", <<"U+2AC4">>>>, <<"Superset;", <<"U+2283">>>>,
    <<"SupersetEqual;", <<"U+2287">>>>, <<"suphsol;", <<"U+27C9">>>>,
    <<"suphsub;", <<"U+2AD7">>>>, <<"suplarr;", <<"U+297B">>>>,
    <<"supmult;", <<"U+2AC2">>>>, <<"supnE;", <<"U+2ACC">>>>,
    <<"supne;", <<"U+228B">>>>, <<"supplus;", <<"U+2AC0">>>>,
    <<"Supset;", <<"U+22D1">>>>, <<"supset;", <<"U+2283">>>>,
    <<"supseteq;", <<"U+2287">>>>, <<"supseteqq;", <<"U+2AC6">>>>,
    <<"supsetneq;", <<"U+228B">>>>, <<"supsetneqq;", <<"U+2ACC">>>>,
    <<"supsim;", <<"U+2AC8">>>>, <<"supsub;", <<"U+2AD4">>>>,
    <<"supsup;", <<"U+2AD6">>>>, <<"swarhk;", <<"U+2926">>>>,
    <<"swArr;", <<"U+21D9">>>>, <<"swarr;", <<"U+2199">>>>,
    <<"swarrow;", <<"U+2199">>>>, <<"swnwar;", <<"U+292A">>>>,
    <<"szlig", <<"U+00DF">>>>, <<"szlig;", <<"U+00DF">>>>,
    <<"Tab;", <<"\t">>>>, <<"target;", <<"U+2316">>>>,
    <<"Tau;", <<"U+03A4">>>>, <<"tau;", <<"U+03C4">>>>,
    <<"tbrk;", <<"U+23B4">>>>, <<"Tcaron;", <<"U+0164">>>>,
    <<"tcaron;", <<"U+0165">>>>, <<"Tcedil;", <<"U+0162">>>>,
    <<"tcedil;", <<"U+0163">>>>, <<"Tcy;", <<"U+0422">>>>,
    <<"tcy;", <<"U+0442">>>>, <<"tdot;", <<"U+20DB">>>>,
    <<"telrec;", <<"U+2315">>>>, <<"Tfr;", <<"U+1D517">>>>,
    <<"tfr;", <<"U+1D531">>>>, <<"there4;", <<"U+2234">>>>,
    <<"Therefore;", <<"U+2234">>>>, <<"therefore;", <<"U+2234">>>>,
    <<"Theta;", <<"U+0398">>>>, <<"theta;", <<"U+03B8">>>>,
    <<"thetasym;", <<"U+03D1">>>>, <<"thetav;", <<"U+03D1">>>>,
    <<"thickapprox;", <<"U+2248">>>>, <<"thicksim;", <<"U+223C">>>>,
    <<"ThickSpace;", <<"U+205F", "U+200A">>>>, <<"thinsp;", <<"U+2009">>>>,
    <<"ThinSpace;", <<"U+2009">>>>, <<"thkap;", <<"U+2248">>>>,
    <<"thksim;", <<"U+223C">>>>, <<"THORN", <<"U+00DE">>>>,
    <<"thorn", <<"U+00FE">>>>, <<"THORN;", <<"U+00DE">>>>,
    <<"thorn;", <<"U+00FE">>>>, <<"Tilde;", <<"U+223C">>>>,
    <<"tilde;", <<"U+02DC">>>>, <<"TildeEqual;", <<"U+2243">>>>,
    <<"TildeFullEqual;", <<"U+2245">>>>, <<"TildeTilde;", <<"U+2248">>>>,
    <<"times", <<"U+00D7">>>>, <<"times;", <<"U+00D7">>>>,
    <<"timesb;", <<"U+22A0">>>>, <<"timesbar;", <<"U+2A31">>>>,
    <<"timesd;", <<"U+2A30">>>>, <<"tint;", <<"U+222D">>>>,
    <<"toea;", <<"U+2928">>>>, <<"top;", <<"U+22A4">>>>,
    <<"topbot;", <<"U+2336">>>>, <<"topcir;", <<"U+2AF1">>>>,
    <<"Topf;", <<"U+1D54B">>>>, <<"topf;", <<"U+1D565">>>>,
    <<"topfork;", <<"U+2ADA">>>>, <<"tosa;", <<"U+2929">>>>,
    <<"tprime;", <<"U+2034">>>>, <<"TRADE;", <<"U+2122">>>>,
    <<"trade;", <<"U+2122">>>>, <<"triangle;", <<"U+25B5">>>>,
    <<"triangledown;", <<"U+25BF">>>>, <<"triangleleft;", <<"U+25C3">>>>,
    <<"trianglelefteq;", <<"U+22B4">>>>, <<"triangleq;", <<"U+225C">>>>,
    <<"triangleright;", <<"U+25B9">>>>, <<"trianglerighteq;", <<"U+22B5">>>>,
    <<"tridot;", <<"U+25EC">>>>, <<"trie;", <<"U+225C">>>>,
    <<"triminus;", <<"U+2A3A">>>>, <<"TripleDot;", <<"U+20DB">>>>,
    <<"triplus;", <<"U+2A39">>>>, <<"trisb;", <<"U+29CD">>>>,
    <<"tritime;", <<"U+2A3B">>>>, <<"trpezium;", <<"U+23E2">>>>,
    <<"Tscr;", <<"U+1D4AF">>>>, <<"tscr;", <<"U+1D4C9">>>>,
    <<"TScy;", <<"U+0426">>>>, <<"tscy;", <<"U+0446">>>>,
    <<"TSHcy;", <<"U+040B">>>>, <<"tshcy;", <<"U+045B">>>>,
    <<"Tstrok;", <<"U+0166">>>>, <<"tstrok;", <<"U+0167">>>>,
    <<"twixt;", <<"U+226C">>>>, <<"twoheadleftarrow;", <<"U+219E">>>>,
    <<"twoheadrightarrow;", <<"U+21A0">>>>, <<"Uacute", <<"U+00DA">>>>,
    <<"uacute", <<"U+00FA">>>>, <<"Uacute;", <<"U+00DA">>>>,
    <<"uacute;", <<"U+00FA">>>>, <<"Uarr;", <<"U+219F">>>>,
    <<"uArr;", <<"U+21D1">>>>, <<"uarr;", <<"U+2191">>>>,
    <<"Uarrocir;", <<"U+2949">>>>, <<"Ubrcy;", <<"U+040E">>>>,
    <<"ubrcy;", <<"U+045E">>>>, <<"Ubreve;", <<"U+016C">>>>,
    <<"ubreve;", <<"U+016D">>>>, <<"Ucirc", <<"U+00DB">>>>,
    <<"ucirc", <<"U+00FB">>>>, <<"Ucirc;", <<"U+00DB">>>>,
    <<"ucirc;", <<"U+00FB">>>>, <<"Ucy;", <<"U+0423">>>>,
    <<"ucy;", <<"U+0443">>>>, <<"udarr;", <<"U+21C5">>>>,
    <<"Udblac;", <<"U+0170">>>>, <<"udblac;", <<"U+0171">>>>,
    <<"udhar;", <<"U+296E">>>>, <<"ufisht;", <<"U+297E">>>>,
    <<"Ufr;", <<"U+1D518">>>>, <<"ufr;", <<"U+1D532">>>>,
    <<"Ugrave", <<"U+00D9">>>>, <<"ugrave", <<"U+00F9">>>>,
    <<"Ugrave;", <<"U+00D9">>>>, <<"ugrave;", <<"U+00F9">>>>,
    <<"uHar;", <<"U+2963">>>>, <<"uharl;", <<"U+21BF">>>>,
    <<"uharr;", <<"U+21BE">>>>, <<"uhblk;", <<"U+2580">>>>,
    <<"ulcorn;", <<"U+231C">>>>, <<"ulcorner;", <<"U+231C">>>>,
    <<"ulcrop;", <<"U+230F">>>>, <<"ultri;", <<"U+25F8">>>>,
    <<"Umacr;", <<"U+016A">>>>, <<"umacr;", <<"U+016B">>>>,
    <<"uml", <<"U+00A8">>>>, <<"uml;", <<"U+00A8">>>>,
    <<"UnderBar;", <<"_">>>>, <<"UnderBrace;", <<"U+23DF">>>>,
    <<"UnderBracket;", <<"U+23B5">>>>, <<"UnderParenthesis;", <<"U+23DD">>>>,
    <<"Union;", <<"U+22C3">>>>, <<"UnionPlus;", <<"U+228E">>>>,
    <<"Uogon;", <<"U+0172">>>>, <<"uogon;", <<"U+0173">>>>,
    <<"Uopf;", <<"U+1D54C">>>>, <<"uopf;", <<"U+1D566">>>>,
    <<"UpArrow;", <<"U+2191">>>>, <<"Uparrow;", <<"U+21D1">>>>,
    <<"uparrow;", <<"U+2191">>>>, <<"UpArrowBar;", <<"U+2912">>>>,
    <<"UpArrowDownArrow;", <<"U+21C5">>>>, <<"UpDownArrow;", <<"U+2195">>>>,
    <<"Updownarrow;", <<"U+21D5">>>>, <<"updownarrow;", <<"U+2195">>>>,
    <<"UpEquilibrium;", <<"U+296E">>>>, <<"upharpoonleft;", <<"U+21BF">>>>,
    <<"upharpoonright;", <<"U+21BE">>>>, <<"uplus;", <<"U+228E">>>>,
    <<"UpperLeftArrow;", <<"U+2196">>>>,
    <<"UpperRightArrow;", <<"U+2197">>>>, <<"Upsi;", <<"U+03D2">>>>,
    <<"upsi;", <<"U+03C5">>>>, <<"upsih;", <<"U+03D2">>>>,
    <<"Upsilon;", <<"U+03A5">>>>, <<"upsilon;", <<"U+03C5">>>>,
    <<"UpTee;", <<"U+22A5">>>>, <<"UpTeeArrow;", <<"U+21A5">>>>,
    <<"upuparrows;", <<"U+21C8">>>>, <<"urcorn;", <<"U+231D">>>>,
    <<"urcorner;", <<"U+231D">>>>, <<"urcrop;", <<"U+230E">>>>,
    <<"Uring;", <<"U+016E">>>>, <<"uring;", <<"U+016F">>>>,
    <<"urtri;", <<"U+25F9">>>>, <<"Uscr;", <<"U+1D4B0">>>>,
    <<"uscr;", <<"U+1D4CA">>>>, <<"utdot;", <<"U+22F0">>>>,
    <<"Utilde;", <<"U+0168">>>>, <<"utilde;", <<"U+0169">>>>,
    <<"utri;", <<"U+25B5">>>>, <<"utrif;", <<"U+25B4">>>>,
    <<"uuarr;", <<"U+21C8">>>>, <<"Uuml", <<"U+00DC">>>>,
    <<"uuml", <<"U+00FC">>>>, <<"Uuml;", <<"U+00DC">>>>,
    <<"uuml;", <<"U+00FC">>>>, <<"uwangle;", <<"U+29A7">>>>,
    <<"vangrt;", <<"U+299C">>>>, <<"varepsilon;", <<"U+03F5">>>>,
    <<"varkappa;", <<"U+03F0">>>>, <<"varnothing;", <<"U+2205">>>>,
    <<"varphi;", <<"U+03D5">>>>, <<"varpi;", <<"U+03D6">>>>,
    <<"varpropto;", <<"U+221D">>>>, <<"vArr;", <<"U+21D5">>>>,
    <<"varr;", <<"U+2195">>>>, <<"varrho;", <<"U+03F1">>>>,
    <<"varsigma;", <<"U+03C2">>>>,
    <<"varsubsetneq;", <<"U+228A", "U+FE00">>>>,
    <<"varsubsetneqq;", <<"U+2ACB", "U+FE00">>>>,
    <<"varsupsetneq;", <<"U+228B", "U+FE00">>>>,
    <<"varsupsetneqq;", <<"U+2ACC", "U+FE00">>>>,
    <<"vartheta;", <<"U+03D1">>>>, <<"vartriangleleft;", <<"U+22B2">>>>,
    <<"vartriangleright;", <<"U+22B3">>>>, <<"Vbar;", <<"U+2AEB">>>>,
    <<"vBar;", <<"U+2AE8">>>>, <<"vBarv;", <<"U+2AE9">>>>,
    <<"Vcy;", <<"U+0412">>>>, <<"vcy;", <<"U+0432">>>>,
    <<"VDash;", <<"U+22AB">>>>, <<"Vdash;", <<"U+22A9">>>>,
    <<"vDash;", <<"U+22A8">>>>, <<"vdash;", <<"U+22A2">>>>,
    <<"Vdashl;", <<"U+2AE6">>>>, <<"Vee;", <<"U+22C1">>>>,
    <<"vee;", <<"U+2228">>>>, <<"veebar;", <<"U+22BB">>>>,
    <<"veeeq;", <<"U+225A">>>>, <<"vellip;", <<"U+22EE">>>>,
    <<"Verbar;", <<"U+2016">>>>, <<"verbar;", <<"|">>>>,
    <<"Vert;", <<"U+2016">>>>, <<"vert;", <<"|">>>>,
    <<"VerticalBar;", <<"U+2223">>>>, <<"VerticalLine;", <<"|">>>>,
    <<"VerticalSeparator;", <<"U+2758">>>>,
    <<"VerticalTilde;", <<"U+2240">>>>, <<"VeryThinSpace;", <<"U+200A">>>>,
    <<"Vfr;", <<"U+1D519">>>>, <<"vfr;", <<"U+1D533">>>>,
    <<"vltri;", <<"U+22B2">>>>, <<"vnsub;", <<"U+2282", "U+20D2">>>>,
    <<"vnsup;", <<"U+2283", "U+20D2">>>>, <<"Vopf;", <<"U+1D54D">>>>,
    <<"vopf;", <<"U+1D567">>>>, <<"vprop;", <<"U+221D">>>>,
    <<"vrtri;", <<"U+22B3">>>>, <<"Vscr;", <<"U+1D4B1">>>>,
    <<"vscr;", <<"U+1D4CB">>>>, <<"vsubnE;", <<"U+2ACB", "U+FE00">>>>,
    <<"vsubne;", <<"U+228A", "U+FE00">>>>,
    <<"vsupnE;", <<"U+2ACC", "U+FE00">>>>,
    <<"vsupne;", <<"U+228B", "U+FE00">>>>, <<"Vvdash;", <<"U+22AA">>>>,
    <<"vzigzag;", <<"U+299A">>>>, <<"Wcirc;", <<"U+0174">>>>,
    <<"wcirc;", <<"U+0175">>>>, <<"wedbar;", <<"U+2A5F">>>>,
    <<"Wedge;", <<"U+22C0">>>>, <<"wedge;", <<"U+2227">>>>,
    <<"wedgeq;", <<"U+2259">>>>, <<"weierp;", <<"U+2118">>>>,
    <<"Wfr;", <<"U+1D51A">>>>, <<"wfr;", <<"U+1D534">>>>,
    <<"Wopf;", <<"U+1D54E">>>>, <<"wopf;", <<"U+1D568">>>>,
    <<"wp;", <<"U+2118">>>>, <<"wr;", <<"U+2240">>>>,
    <<"wreath;", <<"U+2240">>>>, <<"Wscr;", <<"U+1D4B2">>>>,
    <<"wscr;", <<"U+1D4CC">>>>, <<"xcap;", <<"U+22C2">>>>,
    <<"xcirc;", <<"U+25EF">>>>, <<"xcup;", <<"U+22C3">>>>,
    <<"xdtri;", <<"U+25BD">>>>, <<"Xfr;", <<"U+1D51B">>>>,
    <<"xfr;", <<"U+1D535">>>>, <<"xhArr;", <<"U+27FA">>>>,
    <<"xharr;", <<"U+27F7">>>>, <<"Xi;", <<"U+039E">>>>,
    <<"xi;", <<"U+03BE">>>>, <<"xlArr;", <<"U+27F8">>>>,
    <<"xlarr;", <<"U+27F5">>>>, <<"xmap;", <<"U+27FC">>>>,
    <<"xnis;", <<"U+22FB">>>>, <<"xodot;", <<"U+2A00">>>>,
    <<"Xopf;", <<"U+1D54F">>>>, <<"xopf;", <<"U+1D569">>>>,
    <<"xoplus;", <<"U+2A01">>>>, <<"xotime;", <<"U+2A02">>>>,
    <<"xrArr;", <<"U+27F9">>>>, <<"xrarr;", <<"U+27F6">>>>,
    <<"Xscr;", <<"U+1D4B3">>>>, <<"xscr;", <<"U+1D4CD">>>>,
    <<"xsqcup;", <<"U+2A06">>>>, <<"xuplus;", <<"U+2A04">>>>,
    <<"xutri;", <<"U+25B3">>>>, <<"xvee;", <<"U+22C1">>>>,
    <<"xwedge;", <<"U+22C0">>>>, <<"Yacute", <<"U+00DD">>>>,
    <<"yacute", <<"U+00FD">>>>, <<"Yacute;", <<"U+00DD">>>>,
    <<"yacute;", <<"U+00FD">>>>, <<"YAcy;", <<"U+042F">>>>,
    <<"yacy;", <<"U+044F">>>>, <<"Ycirc;", <<"U+0176">>>>,
    <<"ycirc;", <<"U+0177">>>>, <<"Ycy;", <<"U+042B">>>>,
    <<"ycy;", <<"U+044B">>>>, <<"yen", <<"U+00A5">>>>,
    <<"yen;", <<"U+00A5">>>>, <<"Yfr;", <<"U+1D51C">>>>,
    <<"yfr;", <<"U+1D536">>>>, <<"YIcy;", <<"U+0407">>>>,
    <<"yicy;", <<"U+0457">>>>, <<"Yopf;", <<"U+1D550">>>>,
    <<"yopf;", <<"U+1D56A">>>>, <<"Yscr;", <<"U+1D4B4">>>>,
    <<"yscr;", <<"U+1D4CE">>>>, <<"YUcy;", <<"U+042E">>>>,
    <<"yucy;", <<"U+044E">>>>, <<"yuml", <<"U+00FF">>>>,
    <<"Yuml;", <<"U+0178">>>>, <<"yuml;", <<"U+00FF">>>>,
    <<"Zacute;", <<"U+0179">>>>, <<"zacute;", <<"U+017A">>>>,
    <<"Zcaron;", <<"U+017D">>>>, <<"zcaron;", <<"U+017E">>>>,
    <<"Zcy;", <<"U+0417">>>>, <<"zcy;", <<"U+0437">>>>,
    <<"Zdot;", <<"U+017B">>>>, <<"zdot;", <<"U+017C">>>>,
    <<"zeetrf;", <<"U+2128">>>>, <<"ZeroWidthSpace;", <<"U+200B">>>>,
    <<"Zeta;", <<"U+0396">>>>, <<"zeta;", <<"U+03B6">>>>,
    <<"Zfr;", <<"U+2128">>>>, <<"zfr;", <<"U+1D537">>>>,
    <<"ZHcy;", <<"U+0416">>>>, <<"zhcy;", <<"U+0436">>>>,
    <<"zigrarr;", <<"U+21DD">>>>, <<"Zopf;", <<"U+2124">>>>,
    <<"zopf;", <<"U+1D56B">>>>, <<"Zscr;", <<"U+1D4B5">>>>,
    <<"zscr;", <<"U+1D4CF">>>>, <<"zwj;", <<"U+200D">>>>,
    <<"zwnj;", <<"U+200C">>>>>>

\* html._replace_charref, for the prefixes s[:x] of a name, x counting down
RECURSIVE PrefixCharref(_, _)
PrefixCharref(s, x) ==
    IF x <= 1 THEN <<"&">> \o s
    ELSE IF DictHas(html5, Str(SubSeq(s, 1, x)))
         THEN DictGet(html5, Str(SubSeq(s, 1, x)), <<>>) \o Drop(s, x)
         ELSE PrefixCharref(s, x - 1)

DIGITS == {"0", "1", "2", "3", "4", "5", "6", "7", "8", "9"}

HEX_DIGITS ==
    DIGITS \cup {"a", "b", "c", "d", "e", "f", "A", "B", "C", "D", "E", "F"}

\* html._replace_charref, the branch of s[0] == '#' after num = int(...)
numeric_charref(num) ==
    IF DictHas(invalid_charrefs, num)
    THEN DictGet(invalid_charrefs, num, <<>>)
    ELSE IF (55296 <= num /\ num <= 57343) \/ num > 1114111
    THEN <<"U+FFFD">>
    ELSE IF num \in invalid_codepoints THEN <<>>
    ELSE <<chr(num)>>

\* num = int(...) and what follows it: int is the outcome of the call of int()
CharrefOf(int) == IF int.error # "" THEN int ELSE Ok(numeric_charref(int.value))

\* html._replace_charref: s is the reference without its "&"
replace_charref(s) ==
    IF Head(s) = "#"
    THEN LET body == IF endswith(s, <<";">>) THEN SubSeq(s, 1, Len(s) - 1)
                     ELSE s
         IN  CharrefOf(IF body[2] \in {"x", "X"}
                       THEN ParseInt(Drop(body, 2), 16)
                       ELSE ParseInt(Drop(body, 1), 10))
    ELSE IF DictHas(html5, Str(s)) THEN Ok(DictGet(html5, Str(s), <<>>))
    ELSE Ok(PrefixCharref(s, Len(s) - 1))

DigitRun(s) == Span(s, DIGITS)

HexRun(s) == Span(s, HEX_DIGITS)

\* a run of at most max characters of the class [^\t\n\f <&#;]
NameRun(s, max) ==
    LET n == Run(s, {"\t", "\n", "\f", " ", "<", "&", "#", ";"})
    IN  IF n > max THEN max ELSE n

\* the optional ";" after the first n characters of s
Semicolon(s, n) == IF Len(s) > n /\ s[n + 1] = ";" THEN n + 1 ELSE n

\* html._charref, &(#[0-9]+;?|#[xX][0-9a-fA-F]+;?|[^\t\n\f <&#;]{1,32};?):
\* the length of the group matched at the start of s, 0 without a match
CharrefLen(s) ==
    IF s # <<>> /\ Head(s) = "#"
    THEN IF DigitRun(Tail(s)) > 0 THEN Semicolon(s, 1 + DigitRun(Tail(s)))
         ELSE IF Len(s) >= 2 /\ s[2] \in {"x", "X"} /\ HexRun(Drop(s, 2)) > 0
         THEN Semicolon(s, 2 + HexRun(Drop(s, 2)))
         ELSE 0
    ELSE IF NameRun(s, 32) > 0 THEN Semicolon(s, NameRun(s, 32))
    ELSE 0

RECURSIVE SubCharrefs(_)

\* s begins with "&": the reference of k characters after it is replaced,
\* or, k = 0, the "&" stays
SubReference(s, k) ==
    IF k > 0
    THEN Concat(replace_charref(SubSeq(s, 2, k + 1)),
                SubCharrefs(Drop(s, k + 1)))
    ELSE Concat(Ok(<<"&">>), SubCharrefs(Tail(s)))

\* n characters of s stand before its first "&"
SubAfter(s, n) ==
    IF n = Len(s) THEN Ok(s)
    ELSE Concat(Ok(SubSeq(s, 1, n)),
                SubReference(Drop(s, n), CharrefLen(Drop(s, n + 1))))

\* _charref.sub(_replace_charref, s)
SubCharrefs(s) == SubAfter(s, Run(s, {"&"}))

\* html.unescape
unescape(s) == IF ~Contains(s, "&") THEN Ok(s) ELSE SubCharrefs(s)

\* one layer of surrounding matching quotes removed
StripQuotes(v) ==
    IF (startswith(v, <<"\"">>) /\ endswith(v, <<"\"">>))
       \/ (startswith(v, <<"'">>) /\ endswith(v, <<"'">>))
    THEN SubSeq(v, 2, Len(v) - 1)
    ELSE v

\* the part of pair before / after its first "="
BeforeEq(pair) == SubSeq(pair, 1, Run(pair, {"="}))

AfterEq(pair) == Drop(pair, Len(BeforeEq(pair)) + 1)

\* attributes[key] = value, value the outcome of html.unescape: the
\* attributes after it, with the quotes of the value stripped, or the
\* exception
SetPair(attributes, key, value) ==
    IF value.error # "" THEN value
    ELSE Ok(DictSet(attributes, key, StripQuotes(value.value)))

\* the body of the loop over pairs: attributes after the pair, or the
\* exception of html.unescape
ParsePair(attributes, pair) ==
    IF Contains(pair, "=")
    THEN SetPair(attributes, strip(BeforeEq(pair)),
                 unescape(strip(AfterEq(pair))))
    ELSE Ok(DictSet(attributes, strip(pair), <<>>))

RECURSIVE ParsePairs(_, _)

\* the loop over pairs goes on after one pair, unless that pair raised
ParseRest(one, pairs) ==
    IF one.error # "" THEN one ELSE ParsePairs(one.value, pairs)

ParsePairs(attributes, pairs) ==
    IF pairs = <<>> THEN Ok(attributes)
    ELSE ParseRest(ParsePair(attributes, Head(pairs)), Tail(pairs))

parse_additional_attributes(attr_string, sep) ==
    IF ~Truthy(attr_string) THEN Ok(<<>>)
    ELSE ParsePairs(<<>>, split(attr_string, sep))

\* first loop of diff_additional_attributes: over stg_attrs.items()
RECURSIVE DiffStaging(_, _, _, _)
DiffStaging(d, items, prod_attrs, exclude) ==
    IF items = <<>> THEN d
    ELSE LET key == Head(items)[1]
             stg_value == Head(items)[2]
             prod_value == DictGet(prod_attrs, key, <<>>)
         IN  DiffStaging(
                 IF key \notin exclude /\ prod_value # stg_value
                 THEN DictSet(d, key, <<stg_value, prod_value>>)
                 ELSE d,
                 Tail(items), prod_attrs, exclude)

\* second loop of diff_additional_attributes: over prod_attrs.items()
RECURSIVE DiffProduction(_, _, _, _)
DiffProduction(d, items, stg_attrs, exclude) ==
    IF items = <<>> THEN d
    ELSE LET key == Head(items)[1]
             prod_value == Head(items)[2]
         IN  DiffProduction(
                 IF key \notin exclude /\ ~DictHas(stg_attrs, key)
                 THEN DictSet(d, key, <<<<>>, prod_value>>)
                 ELSE d,
                 Tail(items), stg_attrs, exclude)

\* diff_additional_attributes after its two calls of
\* parse_additional_attributes, stg_attrs and prod_attrs their outcomes
DiffMaps(stg_attrs, prod_attrs, exclude) ==
    IF stg_attrs.error # "" THEN stg_attrs
    ELSE IF prod_attrs.error # "" THEN prod_attrs
    ELSE Ok(DiffProduction(DiffStaging(<<>>, stg_attrs.value,
                                       prod_attrs.value, exclude),
                           prod_attrs.value, stg_attrs.value, exclude))

diff_additional_attributes(sv, pv, sep, exclude) ==
    DiffMaps(parse_additional_attributes(sv, sep),
             parse_additional_attributes(pv, sep), exclude)

(***************************************************************************)
(* Configuration values used by the model (load_config / main).           *)
(***************************************************************************)
SECTION == <<"U+00C2", "U+00A7">>       \* the section marker of the source
attr_separator == SECTION
default_key_field == <<"s", "k", "u">>     \* config.get("key_field", "sku")
special_field == <<"a", "a">>

(***************************************************************************)
(* Record loader: load_csv.                                                *)
(***************************************************************************)
PLACEHOLDER_COMMA == <<"<", "<", "<", "C", "O", "M", "M", "A", ">", ">", ">">>
PLACEHOLDER_NEWLINE ==
    <<"<", "<", "<", "N", "E", "W", "L", "I", "N", "E", ">", ">", ">">>
PLACEHOLDER_SECTION ==
    <<"<", "<", "<", "S", "E", "C", "T", "I", "O", "N", ">", ">", ">">>

\* the line boundaries of str.splitlines() ("\r\n" is one boundary)
LINE_BREAKS ==
    {"\n", "U+000B", "\f", "\r", "U+001C", "U+001D", "U+001E", "U+0085",
    "U+2028", "U+2029"}

\* str.splitlines(): n characters stand before the first boundary
RECURSIVE splitlines(_)
splitlines(s) ==
    IF s = <<>> THEN <<>>
    ELSE LET n == Run(s, LINE_BREAKS)
         IN  IF n = Len(s) THEN <<s>>
             ELSE <<SubSeq(s, 1, n)>>
                  \o splitlines(Drop(s,
                         IF s[n + 1] = "\r" /\ n + 2 <= Len(s) /\ s[n + 2] = "\n"
                         THEN n + 2 ELSE n + 1))

\* list.index(x), 0-based, -1 when absent (the except branch)
IndexOf(list, x) ==
    IF \E i \in 1..Len(list) : list[i] = x
    THEN (CHOOSE i \in 1..Len(list) :
              list[i] = x /\ \A j \in 1..(i - 1) : list[j] # x) - 1
    ELSE -1

\* the scanning loop of replace_special_fields; the characters up to the
\* next quote or separating delimiter take the else branch one after another
RECURSIVE ScanLine(_, _, _, _, _, _)
ScanLine(line, delim, parts, current, in_quotes, quote_char) ==
    IF line = <<>> THEN Append(parts, current)
    ELSE LET ch == Head(line)
         IN  IF ch \in {"\"", "'"}
             THEN ScanLine(Tail(line), delim, parts, Append(current, ch),
                           IF ~in_quotes THEN TRUE
                           ELSE IF quote_char = ch THEN FALSE ELSE in_quotes,
                           IF ~in_quotes THEN ch ELSE quote_char)
             ELSE IF ch = delim /\ ~in_quotes
             THEN ScanLine(Tail(line), delim, Append(parts, current), <<>>,
                           in_quotes, quote_char)
             ELSE LET n == Run(line, {"\"", "'"}
                                    \cup (IF in_quotes THEN {} ELSE {delim}))
                  IN  ScanLine(Drop(line, n), delim, parts,
                               current \o SubSeq(line, 1, n),
                               in_quotes, quote_char)

\* the protection of the free-text value (placeholders in)
Protect(val) ==
    replace(replace(replace(replace(StripQuotes(val),
        <<",">>, PLACEHOLDER_COMMA),
        <<"\n">>, PLACEHOLDER_NEWLINE),
        <<"\r">>, PLACEHOLDER_NEWLINE),
        SECTION, PLACEHOLDER_SECTION)

\* the restoring of the free-text value (placeholders out)
Restore(val) ==
    replace(replace(replace(val,
        PLACEHOLDER_COMMA, <<",">>),
        PLACEHOLDER_NEWLINE, <<"\n">>),
        PLACEHOLDER_SECTION, SECTION)

replace_special_fields(line, delim, special_idx) ==
    LET parts == ScanLine(line, delim, <<>>, <<>>, FALSE, "")
        fixed == IF 0 <= special_idx /\ special_idx < Len(parts)
                 THEN [parts EXCEPT ![special_idx + 1] = Protect(@)]
                 ELSE parts
    IN  join(<<delim>>, fixed)

(***************************************************************************)
(* csv.reader (dialect excel: quotechar ", doublequote, not strict) on     *)
(* lines that hold no line break, as splitlines() leaves them.             *)
(***************************************************************************)
EOL == "EOL"

\* csv.field_size_limit(): the longest field the reader takes
field_size_limit == 131072

ReaderStart ==
    [st |-> "START_RECORD", field |-> <<>>, fields |-> <<>>, error |-> ""]

SaveField(r) == [r EXCEPT !.fields = Append(@, r.field), !.field = <<>>]

\* the characters cs added to the field one after another: the reader raises
\* Error at the first one that finds the field at its limit
AddChars(r, cs) ==
    IF Len(r.field) + Len(cs) > field_size_limit
    THEN [r EXCEPT !.field = @ \o SubSeq(cs, 1, field_size_limit - Len(r.field)),
                   !.error = "Error"]
    ELSE [r EXCEPT !.field = @ \o cs]

AddChar(r, c) == AddChars(r, <<c>>)

ProcessChar(r0, c, delim) ==
    LET r == IF r0.st = "START_RECORD" /\ c # EOL
             THEN [r0 EXCEPT !.st = "START_FIELD"] ELSE r0
    IN  CASE r.st = "START_RECORD" -> r
          [] r.st = "START_FIELD" ->
                IF c = EOL THEN [SaveField(r) EXCEPT !.st = "START_RECORD"]
                ELSE IF c = "\"" THEN [r EXCEPT !.st = "IN_QUOTED_FIELD"]
                ELSE IF c = delim THEN SaveField(r)
                ELSE [AddChar(r, c) EXCEPT !.st = "IN_FIELD"]
          [] r.st = "IN_FIELD" ->
                IF c = EOL THEN [SaveField(r) EXCEPT !.st = "START_RECORD"]
                ELSE IF c = delim THEN [SaveField(r) EXCEPT !.st = "START_FIELD"]
                ELSE AddChar(r, c)
          [] r.st = "IN_QUOTED_FIELD" ->
                IF c = EOL THEN r
                ELSE IF c = "\"" THEN [r EXCEPT !.st = "QUOTE_IN_QUOTED_FIELD"]
                ELSE AddChar(r, c)
          [] r.st = "QUOTE_IN_QUOTED_FIELD" ->
                IF c = "\"" THEN [AddChar(r, c) EXCEPT !.st = "IN_QUOTED_FIELD"]
                ELSE IF c = delim THEN [SaveField(r) EXCEPT !.st = "START_FIELD"]
                ELSE IF c = EOL THEN [SaveField(r) EXCEPT !.st = "START_RECORD"]
                ELSE [AddChar(r, c) EXCEPT !.st = "IN_FIELD"]

\* the reader's loop over the characters of a line; inside a field the n
\* characters before the next delimiter, inside a quoted field those before
\* the next quote, are added to the field one after another
RECURSIVE FeedChars(_, _, _)
FeedChars(r, line, delim) ==
    IF line = <<>> \/ r.error # "" THEN r
    ELSE LET n == CASE r.st = "IN_FIELD" -> Run(line, {delim})
                    [] r.st = "IN_QUOTED_FIELD" -> Run(line, {"\""})
                    [] OTHER -> 0
         IN  IF n > 0
             THEN FeedChars(AddChars(r, SubSeq(line, 1, n)),
                            Drop(line, n), delim)
             ELSE FeedChars(ProcessChar(r, Head(line), delim), Tail(line),
                            delim)

\* the rows csv.reader yields from the lines, r the state of the record
\* read, or the exception of the reader
RECURSIVE ReadRows(_, _, _)
ReadRows(lines, r, delim) ==
    IF lines = <<>>
    THEN Ok(IF r.field # <<>> \/ r.st = "IN_QUOTED_FIELD"
            THEN <<SaveField(r).fields>> ELSE <<>>)
    ELSE LET fed == FeedChars(r, Head(lines), delim)
             r1 == ProcessChar(fed, EOL, delim)
         IN  IF fed.error # "" THEN Raise(fed.error)
             ELSE IF r1.st = "START_RECORD"
             THEN Concat(Ok(<<r1.fields>>),
                         ReadRows(Tail(lines), ReaderStart, delim))
             ELSE ReadRows(Tail(lines), r1, delim)

\* csv.DictReader.__next__: one row as a dict over fieldnames
RECURSIVE ZipRow(_, _, _)
ZipRow(d, fieldnames, row) ==
    IF fieldnames = <<>>
    THEN (IF row # <<>> THEN DictSet(d, None, List(row)) ELSE d)
    ELSE IF row = <<>>
         THEN ZipRow(DictSet(d, Head(fieldnames), None), Tail(fieldnames), row)
         ELSE ZipRow(DictSet(d, Head(fieldnames), Head(row)),
                     Tail(fieldnames), Tail(row))

\* csv.DictReader: the dicts of the rows after the first, empty rows skipped
RECURSIVE DictRows(_, _)
DictRows(fieldnames, rows) ==
    IF rows = <<>> THEN <<>>
    ELSE IF Head(rows) = <<>> THEN DictRows(fieldnames, Tail(rows))
    ELSE <<ZipRow(<<>>, fieldnames, Head(rows))>>
         \o DictRows(fieldnames, Tail(rows))

\* the first row gives the field names of the rows after it; rows is the
\* outcome of the reader
DictOf(rows) ==
    IF rows.error # "" THEN rows
    ELSE Ok(IF rows.value = <<>> THEN <<>>
            ELSE DictRows(Head(rows.value), Tail(rows.value)))

DictReader(lines, delim) == DictOf(ReadRows(lines, ReaderStart, delim))

\* the loop of load_csv over the reader's rows
RECURSIVE LoadRows(_, _, _, _)
LoadRows(d, rows, special, keyf) ==
    IF rows = <<>> THEN d
    ELSE LET row == Head(rows)
             restored ==
                 IF DictHas(row, special) /\ Truthy(DictGet(row, special, None))
                 THEN DictSet(row, special, Restore(DictGet(row, special, None)))
                 ELSE row
         IN  IF ~Truthy(DictGet(row, keyf, None))
             THEN LoadRows(d, Tail(rows), special, keyf)
             ELSE LoadRows(DictSet(d, strip(DictGet(restored, keyf, None)),
                                   restored),
                           Tail(rows), special, keyf)

RECURSIVE ProtectLines(_, _, _)
ProtectLines(lines, delim, special_idx) ==
    IF lines = <<>> THEN <<>>
    ELSE <<replace_special_fields(Head(lines), delim, special_idx)>>
         \o ProtectLines(Tail(lines), delim, special_idx)

\* the loop of load_csv over the reader: the exception of the reader ends it
Loaded(reader, special, keyf) ==
    IF reader.error # "" THEN reader
    ELSE Ok(LoadRows(<<>>, reader.value, special, keyf))

\* the outcome of load_csv: the Catalog returned, or the exception
load_csv(text, delim, special, keyf) ==
    LET lines == splitlines(text)
    IN  IF lines = <<>> THEN Ok(<<>>)
        ELSE LET header == Head(lines)
                 headers == split(header, <<delim>>)
                 special_idx == IndexOf(headers, special)
                 processed_lines ==
                     <<header>> \o ProtectLines(Tail(lines), delim, special_idx)
             IN  Loaded(DictReader(processed_lines, delim), special, keyf)

(***************************************************************************)
(* Catalog differ: compare_catalogs.                                       *)
(***************************************************************************)
\* A diff entry.  Its field sku is the value the dict has at key_field,
\* diff[key_field]; type is the string of the source.
Entry(sku, type, field, sv, pv) ==
    [sku |-> sku, type |-> type, field |-> field,
     staging_value |-> sv, production_value |-> pv]

\* the type of an entry as a text
TypeText(type) ==
    IF type = "missing_in_production"
    THEN <<"m", "i", "s", "s", "i", "n", "g", "_", "i", "n", "_",
           "p", "r", "o", "d", "u", "c", "t", "i", "o", "n">>
    ELSE IF type = "extra_in_production"
    THEN <<"e", "x", "t", "r", "a", "_", "i", "n", "_",
           "p", "r", "o", "d", "u", "c", "t", "i", "o", "n">>
    ELSE IF type = "different_value"
    THEN <<"d", "i", "f", "f", "e", "r", "e", "n", "t", "_",
           "v", "a", "l", "u", "e">>
    ELSE <<"d", "i", "f", "f", "e", "r", "e", "n", "t", "_",
           "v", "a", "l", "u", "e", " ", "(", "a", "d", "d", "i", "t", "i",
           "o", "n", "a", "l", "_", "a", "t", "t", "r", "i", "b", "u", "t",
           "e", ")">>

\* The dict literal {key_field: sku, "type": ..., "field": ...,
\* "staging_value": ..., "production_value": ...}: a key_field that is one
\* of the four other keys is the same key of the dict, and the later value
\* replaces sku.
Keyed(e, keyf) ==
    [e EXCEPT !.sku =
        IF keyf = <<"t", "y", "p", "e">> THEN TypeText(e.type)
        ELSE IF keyf = <<"f", "i", "e", "l", "d">> THEN e.field
        ELSE IF keyf = <<"s", "t", "a", "g", "i", "n", "g", "_",
                         "v", "a", "l", "u", "e">>
        THEN e.staging_value
        ELSE IF keyf = <<"p", "r", "o", "d", "u", "c", "t", "i", "o", "n", "_",
                         "v", "a", "l", "u", "e">>
        THEN e.production_value
        ELSE e.sku]

\* the entries of one free-text column: one per item of subdiffs, in its order
SubEntries(sku, special, sd, keyf) ==
    [i \in 1..Len(sd) |->
        Keyed(Entry(sku, "different_value (additional_attribute)",
                    special \o <<":">> \o sd[i][1], sd[i][2][1], sd[i][2][2]),
              keyf)]

\* the loop over subdiffs.items(), sd the outcome of
\* diff_additional_attributes
SubEntriesOf(sku, special, sd, keyf) ==
    IF sd.error # "" THEN sd ELSE Ok(SubEntries(sku, special, sd.value, keyf))

\* Mutant of FieldEntries: the test "field in ignore_fields" is left out.
FieldEntriesNoIgnore(sku, field, stg_row, prod_row, ignore, special, sep, exclude, keyf) ==
    LET stg_cell == DictGet(stg_row, field, None)
        prod_cell == DictGet(prod_row, field, None)
        sv == strip(OrEmpty(stg_cell))
        pv == strip(OrEmpty(prod_cell))
    IN  IF IsList(stg_cell) \/ IsList(prod_cell) THEN Raise("AttributeError")
        ELSE IF field = special
        THEN SubEntriesOf(sku, special,
                          diff_additional_attributes(sv, pv, sep, exclude),
                          keyf)
        ELSE IF sv # pv
        THEN Ok(<<Keyed(Entry(sku, "different_value", field, sv, pv), keyf)>>)
        ELSE Ok(<<>>)

\* the body of the loop over stg_row.keys(), for one field: the entries
\* appended, or the exception.  The cell of the field None of a long row is
\* the list of its surplus cells, and (stg_row[field] or "").strip() raises
\* AttributeError; html.unescape raises ValueError inside
\* diff_additional_attributes.
FieldEntries(sku, field, stg_row, prod_row, ignore, special, sep, exclude, keyf) ==
    LET stg_cell == DictGet(stg_row, field, None)
        prod_cell == DictGet(prod_row, field, None)
        sv == strip(OrEmpty(stg_cell))
        pv == strip(OrEmpty(prod_cell))
    IN  IF field \in ignore THEN Ok(<<>>)
        ELSE IF IsList(stg_cell) \/ IsList(prod_cell)
        THEN Raise("AttributeError")
        ELSE IF field = special
        THEN SubEntriesOf(sku, special,
                          diff_additional_attributes(sv, pv, sep, exclude),
                          keyf)
        ELSE IF sv # pv
        THEN Ok(<<Keyed(Entry(sku, "different_value", field, sv, pv), keyf)>>)
        ELSE Ok(<<>>)

RECURSIVE RowEntries(_, _, _, _, _, _, _, _, _)
RowEntries(sku, fields, stg_row, prod_row, ignore, special, sep, exclude, keyf) ==
    IF fields = <<>> THEN Ok(<<>>)
    ELSE Concat(FieldEntries(sku, Head(fields), stg_row, prod_row, ignore,
                             special, sep, exclude, keyf),
                RowEntries(sku, Tail(fields), stg_row, prod_row, ignore,
                           special, sep, exclude, keyf))

\* the body of the loop over staging.items(), for one record
StagingEntries(sku, stg_row, prod, ignore, special, sep, exclude, keyf) ==
    IF ~DictHas(prod, sku) \/ DictGet(prod, sku, <<>>) = <<>>
    THEN Ok(<<Keyed(Entry(sku, "missing_in_production", <<>>, <<>>, <<>>),
                    keyf)>>)
    ELSE RowEntries(sku, DictKeys(stg_row), stg_row, DictGet(prod, sku, <<>>),
                    ignore, special, sep, exclude, keyf)

RECURSIVE StagingLoop(_, _, _, _, _, _, _)
StagingLoop(items, prod, ignore, special, sep, exclude, keyf) ==
    IF items = <<>> THEN Ok(<<>>)
    ELSE Concat(StagingEntries(Head(items)[1], Head(items)[2], prod, ignore,
                               special, sep, exclude, keyf),
                StagingLoop(Tail(items), prod, ignore, special, sep, exclude,
                            keyf))

\* the loop over production.keys()
RECURSIVE ProductionLoop(_, _, _)
ProductionLoop(skus, stg, keyf) ==
    IF skus = <<>> THEN <<>>
    ELSE (IF ~DictHas(stg, Head(skus))
          THEN <<Keyed(Entry(Head(skus), "extra_in_production",
                             <<>>, <<>>, <<>>), keyf)>>
          ELSE <<>>)
         \o ProductionLoop(Tail(skus), stg, keyf)

\* Mutant of compare_catalogs: the production loop runs first.
compare_catalogs_extras_first(stg, prod, ignore, special, sep, exclude, keyf) ==
    Concat(Ok(ProductionLoop(DictKeys(prod), stg, keyf)),
           StagingLoop(stg, prod, ignore, special, sep, exclude, keyf))

\* the outcome of compare_catalogs: the list returned, or the exception of
\* the loop over staging.items()
compare_catalogs(stg, prod, ignore, special, sep, exclude, keyf) ==
    Concat(StagingLoop(stg, prod, ignore, special, sep, exclude, keyf),
           Ok(ProductionLoop(DictKeys(prod), stg, keyf)))

(***************************************************************************)
(* Report writer: write_report.                                            *)
(***************************************************************************)
product_websites ==
    <<"p", "r", "o", "d", "u", "c", "t", "_", "w", "e", "b", "s", "i", "t", "e", "s">>
differences == <<"d", "i", "f", "f", "e", "r", "e", "n", "c", "e", "s">>
missing_in_production ==
    <<"m", "i", "s", "s", "i", "n", "g", "_", "i", "n", "_",
     "p", "r", "o", "d", "u", "c", "t", "i", "o", "n">>
extra_in_production ==
    <<"e", "x", "t", "r", "a", "_", "i", "n", "_",
     "p", "r", "o", "d", "u", "c", "t", "i", "o", "n">>
ARROW == <<"U+00E2", "U+2020", "U+2019">>       \* the arrow of the source

\* html.escape(s), quote=True: five replacements, "&" first
escape(s) ==
    replace(replace(replace(replace(replace(s,
        <<"&">>, <<"&", "a", "m", "p", ";">>),
        <<"<">>, <<"&", "l", "t", ";">>),
        <<">">>, <<"&", "g", "t", ";">>),
        <<"\"">>, QUOT),
        <<"'">>, <<"&", "#", "x", "2", "7", ";">>)

IsHtmlField(field, hfields) ==
    \E i \in 1..Len(hfields) :
        field = hfields[i] \/ startswith(field, hfields[i] \o <<":">>)

\* the description appended to grouped[sku]["diffs"] for one entry
Describe(diff, hfields) ==
    IF diff.type = "missing_in_production" THEN missing_in_production
    ELSE IF diff.type = "extra_in_production" THEN extra_in_production
    ELSE LET esc == IsHtmlField(diff.field, hfields)
             sv == IF esc THEN escape(diff.staging_value) ELSE diff.staging_value
             pv == IF esc THEN escape(diff.production_value)
                   ELSE diff.production_value
         IN  diff.field \o <<" ", "[">> \o sv \o <<" ">> \o ARROW \o <<" ">>
             \o pv \o <<"]">>

\* the first loop of write_report: grouped maps sku to its descriptions
RECURSIVE Group(_, _, _)
Group(grouped, ds, hfields) ==
    IF ds = <<>> THEN grouped
    ELSE LET sku == Head(ds).sku
             old == DictGet(grouped, sku, <<>>)
         IN  Group(DictSet(grouped, sku, Append(old, Describe(Head(ds), hfields))),
                   Tail(ds), hfields)

\* the second loop of write_report: the auxiliary value of one key
Websites(sku, stg) ==
    IF DictHas(stg, sku) /\ DictGet(stg, sku, <<>>) # <<>>
    THEN DictGet(DictGet(stg, sku, <<>>), product_websites, <<>>)
    ELSE <<>>

\* os.path.dirname (posixpath): the path up to its last "/", without the
\* "/" that end it unless it is made of them
dirname(path) ==
    LET head == SubSeq(path, 1, Len(path) - Run(Reverse(path), {"/"}))
    IN  IF \E i \in 1..Len(head) : head[i] # "/"
        THEN SubSeq(head, 1, Len(head) - Span(Reverse(head), {"/"}))
        ELSE head

(***************************************************************************)
(* The file system, as os.makedirs and open() find it.  cwd is the working *)
(* directory, as os.getcwd() returns it.  The directories that exist are   *)
(* the working directory, those above it and the root; nothing else        *)
(* exists, and there are no symbolic links.  Directories and files can be  *)
(* made in each of them.  A name holds up to NAME_MAX bytes and a path     *)
(* fewer than PATH_MAX bytes, as on Linux.                                 *)
(***************************************************************************)
NAME_MAX == 255
PATH_MAX == 4096

\* the calls of os.makedirs inside one another that the call stack of main
\* has room for (sys.getrecursionlimit() is 1000)
makedirs_depth == 995

\* os.fsencode: UTF-8 with surrogateescape.  U+DC80..U+DCFF stand for one
\* byte each, and no other surrogate can be encoded.
ONE_BYTE == {chr(n) : n \in (0..127) \cup (56448..56575)}
TWO_BYTES == {chr(n) : n \in 128..2047}
SURROGATES == {chr(n) : n \in 55296..57343}

\* len(os.fsencode(s)): one byte for each character, one more for those of
\* two bytes or more, one more for those of three or more, one more for
\* those of four (above U+FFFF: a symbol of more than six characters)
EncodedLen(s) ==
    Len(s)
    + Cardinality({i \in 1..Len(s) : s[i] \notin ONE_BYTE})
    + Cardinality({i \in 1..Len(s) :
                      s[i] \notin ONE_BYTE /\ s[i] \notin TWO_BYTES})
    + Cardinality({i \in 1..Len(s) :
                      s[i] \notin ONE_BYTE /\ s[i] \notin TWO_BYTES
                      /\ Len(s[i]) > 6})

\* The names of a path: <<first, last>>, the places of each run of
\* characters other than "/", in order.  Parts(s, lo, hi) are the names of
\* s[lo..hi], found in the two halves and joined.
JoinParts(mid, left, right) ==
    IF left # <<>> /\ right # <<>> /\ left[Len(left)][2] = mid
       /\ right[1][1] = mid + 1
    THEN SubSeq(left, 1, Len(left) - 1)
         \o <<(<<left[Len(left)][1], right[1][2]>>)>> \o Tail(right)
    ELSE left \o right

RECURSIVE Parts(_, _, _)
Parts(s, lo, hi) ==
    IF lo > hi THEN <<>>
    ELSE IF lo = hi THEN (IF s[lo] = "/" THEN <<>> ELSE <<(<<lo, lo>>)>>)
    ELSE JoinParts((lo + hi) \div 2, Parts(s, lo, (lo + hi) \div 2),
                   Parts(s, (lo + hi) \div 2 + 1, hi))

\* the names of the path s, parts their places
Names(s, parts) ==
    [k \in 1..Len(parts) |-> SubSeq(s, parts[k][1], parts[k][2])]

\* the exception of a system call for the path s, whatever the path names:
\* UnicodeEncodeError from os.fsencode, ValueError for an embedded null
\* byte, OSError (ENAMETOOLONG) from the system
PathError(s) ==
    IF \E i \in 1..Len(s) : s[i] \in SURROGATES /\ s[i] \notin ONE_BYTE
    THEN "UnicodeEncodeError"
    ELSE IF Contains(s, "U+0000") THEN "ValueError"
    ELSE IF \/ EncodedLen(s) >= PATH_MAX
            \/ LET names == Names(s, Parts(s, 1, Len(s)))
               IN  \E k \in 1..Len(names) : EncodedLen(names[k]) > NAME_MAX
    THEN "OSError"
    ELSE ""

\* the directories that exist before os.makedirs, each as the sequence of
\* its names from the root: the working directory and those above it, the
\* root (<<>>) the last of them
Dirs(cwd) ==
    {SubSeq(Names(cwd, Parts(cwd, 1, Len(cwd))), 1, k) :
        k \in 0..Len(Parts(cwd, 1, Len(cwd)))}

\* Where a path leads from the directory it starts in: ups directories up,
\* then down by names.  Then is two paths one after the other;
\* Walks(names, lo, hi)[i] is the path of the names lo..lo+i-1.
Then(a, b) ==
    IF b.ups <= Len(a.names)
    THEN [ups |-> a.ups,
          names |-> SubSeq(a.names, 1, Len(a.names) - b.ups) \o b.names]
    ELSE [ups |-> a.ups + b.ups - Len(a.names), names |-> b.names]

AfterAll(left, right) ==
    left \o [i \in 1..Len(right) |-> Then(left[Len(left)], right[i])]

RECURSIVE Walks(_, _, _)
Walks(names, lo, hi) ==
    IF lo > hi THEN <<>>
    ELSE IF lo = hi
    THEN <<[ups |-> IF names[lo] = <<".", ".">> THEN 1 ELSE 0,
            names |-> IF names[lo] \in {<<".">>, <<".", ".">>} THEN <<>>
                      ELSE <<names[lo]>>]>>
    ELSE AfterAll(Walks(names, lo, (lo + hi) \div 2),
                  Walks(names, (lo + hi) \div 2 + 1, hi))

\* the directories the walks lead to from the directory start, each as the
\* sequence of its names from the root: up from the root is the root (".."
\* in the root is the root itself)
Lead(start, walks) ==
    [k \in 1..Len(walks) |->
        (IF walks[k].ups < Len(start)
         THEN SubSeq(start, 1, Len(start) - walks[k].ups) ELSE <<>>)
        \o walks[k].names]

\* Places(path, cwd)[k] is where the path leads with its first k names: a
\* path that starts with "/" starts in the root, any other in the working
\* directory
Places(path, cwd) ==
    Lead(IF path # <<>> /\ path[1] = "/" THEN <<>>
         ELSE Names(cwd, Parts(cwd, 1, Len(cwd))),
         Walks(Names(path, Parts(path, 1, Len(path))), 1,
               Len(Parts(path, 1, Len(path)))))

\* the first prefix of name, of those that end at the names lo..hi, with a
\* PathError (hi + 1: none); a longer prefix has one when a shorter has
RECURSIVE FirstError(_, _, _, _)
FirstError(name, parts, lo, hi) ==
    IF lo > hi THEN lo
    ELSE IF PathError(SubSeq(name, 1, parts[(lo + hi) \div 2][2])) # ""
    THEN FirstError(name, parts, lo, (lo + hi) \div 2 - 1)
    ELSE FirstError(name, parts, (lo + hi) \div 2 + 1, hi)

\* os.path.exists(head) in os.makedirs: the number of the heads of the path
\* that exist before a directory is made.  A head exists when it has no
\* PathError (bad is the first prefix with one: os.path.exists is False for
\* it) and it leads, as every head before it, to a directory that exists:
\* led is the number of the prefixes the path starts with that do.
Existing(parts, bad, led) ==
    Cardinality({j \in 1..(Len(parts) - 1) : j < bad /\ j <= led})

\* os.makedirs calls itself for the heads that do not exist, then makes
\* the directories from the name first on, that of the innermost call.  The
\* first mkdir that raises ends it (FileExistsError for a directory is
\* passed over, exist_ok).  The call for a name "." returns without mkdir
\* ("if tail == cdir") unless it is the innermost: k is the name of the
\* first mkdir for a path with a PathError.
MakeDirs(name, parts, first) ==
    IF Len(parts) - first + 1 > makedirs_depth THEN "RecursionError"
    ELSE LET bad == FirstError(name, parts, first, Len(parts))
             k == IF bad = first THEN bad
                  ELSE bad + Span(Drop(Names(name, parts), bad - 1), {<<".">>})
         IN  IF k > Len(parts) THEN ""
             ELSE PathError(SubSeq(name, 1, parts[k][2]))

\* os.makedirs(name, exist_ok=True): the exception raised, "" for none
makedirs(name, cwd) ==
    IF name = <<>> THEN "FileNotFoundError"
    ELSE IF Parts(name, 1, Len(name)) = <<>> THEN PathError(name)
    ELSE MakeDirs(name, Parts(name, 1, Len(name)),
                  Existing(Parts(name, 1, Len(name)),
                           FirstError(name, Parts(name, 1, Len(name)), 1,
                                      Len(Parts(name, 1, Len(name)))),
                           Span(Places(name, cwd), Dirs(cwd))) + 1)

\* the path names a directory once os.makedirs has made those of its
\* dirname: it ends with "/", "." or "..", or it leads to a directory that
\* existed before or to one that a head of it leads to
IsDirectory(path, names, places, dirs) ==
    \/ path[Len(path)] = "/"
    \/ names[Len(names)] \in {<<".">>, <<".", ".">>}
    \/ places[Len(places)] \in dirs
    \/ \E k \in 1..(Len(places) - 1) : places[k] = places[Len(places)]

\* open(output_file, "w", ...) after os.makedirs: the exception raised
open(path, cwd) ==
    IF PathError(path) # "" THEN PathError(path)
    ELSE IF IsDirectory(path, Names(path, Parts(path, 1, Len(path))),
                        Places(path, cwd), Dirs(cwd))
    THEN "IsADirectoryError"
    ELSE ""

\* lines 205-206: the exception of os.makedirs, or else that of open()
FileError(path, cwd) ==
    IF makedirs(dirname(path), cwd) # "" THEN makedirs(dirname(path), cwd)
    ELSE open(path, cwd)

\* print(text): sys.stdout encodes the text, stdout.encoding "utf-8" or
\* "ascii" and stdout.errors "strict" or "surrogateescape" (as set by the
\* locale or PYTHONIOENCODING).  ASCII can be encoded; U+DC80..U+DCFF with
\* surrogateescape; in UTF-8 every character but a surrogate.
print(text, stdout) ==
    IF \A i \in 1..Len(text) :
           \/ text[i] \in ONE_BYTE /\ text[i] \notin SURROGATES
           \/ text[i] \in ONE_BYTE /\ stdout.errors = "surrogateescape"
           \/ text[i] \notin SURROGATES /\ stdout.encoding = "utf-8"
    THEN ""
    ELSE "UnicodeEncodeError"

\* csv.DictWriter.writerow of the dict literal of lines 210-214, one cell
\* per name of fieldnames (None is written as ""): a key_field
\* "product_websites" or "differences" is the same key of the dict as the
\* later one, whose value replaces sku
writerow(fields, keyf, sku, websites, joined) ==
    LET rowdict ==
            DictSet(DictSet(DictSet(<<>>, keyf, sku),
                            product_websites, websites),
                    differences, joined)
    IN  [j \in 1..Len(fields) |->
            IF DictGet(rowdict, fields[j], <<>>) = None THEN <<>>
            ELSE DictGet(rowdict, fields[j], <<>>)]

\* the file is written in UTF-8: a line with a surrogate cannot be encoded
CannotEncode(cells) ==
    \E j \in 1..Len(cells) :
        \E i \in 1..Len(cells[j]) : cells[j][i] \in SURROGATES

\* no file: the return or the exception at an empty diffs, or an exception
\* before the writing
NoReport(error) ==
    [written |-> FALSE, error |-> error, fields |-> <<>>, rows |-> <<>>]

\* lines 206-216: the header and the rows written to the file, which the
\* first line that raises UnicodeEncodeError ends; good is the number of
\* rows before it.  printed is the exception of the print() of line 216,
\* after the file is written and closed.
Written(fields, rows, printed) ==
    LET good == Cardinality({i \in 1..Len(rows) :
                                \A j \in 1..i : ~CannotEncode(rows[j])})
    IN  IF CannotEncode(fields)
        THEN [written |-> TRUE, error |-> "UnicodeEncodeError",
              fields |-> <<>>, rows |-> <<>>]
        ELSE [written |-> TRUE,
              error |-> IF good < Len(rows) THEN "UnicodeEncodeError"
                        ELSE printed,
              fields |-> fields,
              rows |-> SubSeq(rows, 1, good)]

\* the rows of grouped, as lines 209-214 write them
Rows(grouped, stg, keyf, fields) ==
    [i \in 1..Len(grouped) |->
        writerow(fields, keyf, grouped[i][1], Websites(grouped[i][1], stg),
                 join(<<";", " ">>, grouped[i][2]))]

\* The outcome of write_report in the working directory cwd, with
\* sys.stdout as stdout: the file written, and the exception if one ends
\* it.  A row of the file is the sequence of its cells, in the order of
\* fields.  The messages are those of lines 178 and 216; that of line 217
\* is ASCII and can be encoded.
write_report(ds, hfields, stg, path, keyf, cwd, stdout) ==
    IF ds = <<>>
    THEN NoReport(print(<<"U+00E2", "U+0153", "U+2026", " ", "N", "e", "s",
                          "s", "u", "n", "a", " ", "d", "i", "f", "f", "e",
                          "r", "e", "n", "z", "a", " ", "t", "r", "o", "v",
                          "a", "t", "a", " ", "t", "r", "a", " ", "i", " ",
                          "d", "u", "e", " ", "c", "a", "t", "a", "l", "o",
                          "g", "h", "i", ".">>, stdout))
    ELSE IF FileError(path, cwd) # "" THEN NoReport(FileError(path, cwd))
    ELSE Written(<<keyf, product_websites, differences>>,
                 Rows(Group(<<>>, ds, hfields), stg, keyf,
                      <<keyf, product_websites, differences>>),
                 print(<<"U+00F0", "U+0178", "U+201C", "U+201E", " ", "R",
                         "e", "p", "o", "r", "t", " ", "g", "e", "n", "e",
                         "r", "a", "t", "o", ":", " ">> \o path, stdout))


(***************************************************************************)
(* Inputs.                                                                 *)
(***************************************************************************)
SeqsUpTo(S, n) == UNION {[1..k -> S] : k \in 0..n}

Injective(s) == \A i, j \in 1..Len(s) : s[i] = s[j] => i = j

\* sub-attribute pairs as they are written in a free-text value
AttrTokens ==
    {<<"a">>,
     <<"a", "=", "x">>,
     <<"a", "=", "\"", " ", "x", "\"">>,
     <<"b", "=", "x">>,
     <<" ", "b", " ", "=", " ">> \o QUOT \o <<"y">> \o QUOT \o <<" ">>,
     <<"c", "=">>}

CatalogTokens ==
    {<<"a">>,
     <<"a", "=", "x">>,
     <<"a", "=", "\"", " ", "x", "\"">>,
     <<"b", "=", "<", "y">>}

\* the free-text values of up to MaxPairs pairs
AttrValues(tokens) == {join(attr_separator, s) : s \in SeqsUpTo(tokens, MaxPairs)}

ExcludeSets == {{}, {<<"a">>}}

\* a document of load_csv: header sku<d>aa, one line per record, the
\* free-text cell quoted as a CSV writer quotes it
KeyTexts == {<<"A">>, <<"B">>, <<" ">>, <<>>}

DocChars == {"x", ",", ";", "\n", "\""}

DocValues == SeqsUpTo(DocChars, MaxValLen) \cup {SECTION, <<"x">> \o SECTION}

QuoteCell(v) == <<"\"">> \o replace(v, <<"\"">>, <<"\"", "\"">>) \o <<"\"">>

Document(recs, d) ==
    join(<<"\n">>,
         <<default_key_field \o <<d>> \o special_field>>
         \o [i \in 1..Len(recs) |-> recs[i][1] \o <<d>> \o QuoteCell(recs[i][2])])

\* documents of main: a header line and one line per row, the cells of a
\* line joined with the delimiter
Line(cells, d) == join(<<d>>, cells)

Doc(header, rows, d) ==
    join(<<"\n">>, <<Line(header, d)>>
                   \o [i \in 1..Len(rows) |-> Line(rows[i], d)])

\* The column names are sku, c, aa, product_websites and differences: none
\* holds a ":".
c == <<"c">>

\* the key cells of a row: A, B, or a blank cell
KeyCells == {<<"A">>, <<"B">>, <<" ">>}

KeySeqs == {ks \in SeqsUpTo(KeyCells, MaxKeys) : Injective(ks)}

Cells(cv, av, wv) ==
    (c :> cv) @@ (special_field :> av) @@ (product_websites :> wv)

\* the cells of a row under a header
RowCells(header, k, v) ==
    [i \in 1..Len(header) |->
        IF header[i] = default_key_field THEN k ELSE v[header[i]]]

\* several rows, two contents, both column orders
KeyContents ==
    {Cells(<<"x">>, <<"a", "=", "x">>, <<"w">>),
     Cells(<<"y">>, <<"b", "=", "x">> \o SECTION \o <<"a">>, <<>>)}

KeyDocs(header) ==
    UNION {{Doc(header, [i \in 1..Len(ks) |-> RowCells(header, ks[i], vs[i])],
                ",") : vs \in [1..Len(ks) -> KeyContents]} :
              ks \in KeySeqs}

HeaderA == <<default_key_field, c, special_field, product_websites>>
HeaderB == <<default_key_field, special_field, c, product_websites>>

\* small documents: the plain column c present or not, a row shorter or
\* longer than the header, a free-text cell that holds the delimiter ";"
PlainDocs(d) ==
    {Doc(<<default_key_field, c>>, <<row>>, d) :
        row \in {<<(<<"A">>), <<"x">>>>, <<(<<"A">>), <<" ", "x">>>>,
                 <<(<<"A">>), <<>>>>, <<(<<"A">>)>>,
                 <<(<<"A">>), <<"x">>, <<"y">>>>}}
    \cup {Doc(<<default_key_field>>, <<(<<(<<"A">>)>>)>>, d),
          Doc(<<default_key_field, c, product_websites>>,
              <<(<<(<<"A">>), <<"x">>>>)>>, d),
          Doc(<<default_key_field, c>>,
              <<(<<(<<"A">>), <<"x">>, <<"y">>>>), <<(<<"B">>), <<"x">>>>>>, d),
          Doc(<<default_key_field, special_field>>,
              <<(<<(<<"A">>), QuoteCell(<<"x", ";", "y">>)>>)>>, d)}

\* one row A with a free-text cell
AttrDocs ==
    {Doc(<<default_key_field, special_field>>, <<(<<(<<"A">>), av>>)>>,
         ",") :
        av \in AttrValues(CatalogTokens)}

\* documents whose key column is keyf: rows of a key cell and a cell of c
KeyColumnDocs(keyf) ==
    {Doc(<<keyf, c>>, rows, ",") :
        rows \in SeqsUpTo({<<(<<"w">>), <<"x">>>>, <<(<<"v">>), <<"x">>>>,
                           <<(<<" ", "w">>), <<"y">>>>}, MaxKeys)}

\* output_file: the default of main, a path without a directory part, a
\* path that names a directory, a path back into the directory it makes,
\* a path to the directory "w", a path with a byte that is not UTF-8
OutputFiles ==
    {<<"o", "u", "t", "p", "u", "t", "/", "d", "i", "f", "f", "_",
       "r", "e", "p", "o", "r", "t", ".", "c", "s", "v">>,
     <<"d", "i", "f", "f", "_", "r", "e", "p", "o", "r", "t", ".", "c", "s", "v">>,
     <<"o", "u", "t", "p", "u", "t", "/">>,
     <<"o", "u", "t", "/", ".", ".", "/", "o", "u", "t">>,
     <<".", ".", "/", ".", ".", "/", "w">>,
     <<"U+DC80", "/", "r", ".", "c", "s", "v">>}

\* os.getcwd(): a directory of the root, and one below a directory "w"
WorkingDirectories == {<<"/", "w">>, <<"/", "w", "/", "d">>}

\* sys.stdout: UTF-8 (strict, or surrogateescape as in the C locale), ASCII
Stdouts ==
    {[encoding |-> "utf-8", errors |-> "strict"],
     [encoding |-> "utf-8", errors |-> "surrogateescape"],
     [encoding |-> "ascii", errors |-> "strict"]}

Unused == <<>>

(***************************************************************************)
(* The attribute diff on its own: diff_additional_attributes.              *)
(***************************************************************************)
InitAttr ==
    /\ pc = "attr_input"
    /\ key_field = default_key_field
    /\ stg_val \in AttrValues(AttrTokens)
    /\ prod_val \in AttrValues(AttrTokens)
    /\ exclude_attrs \in ExcludeSets
    /\ subdiffs = Unused
    /\ content = Unused /\ delimiter = "" /\ data = Unused /\ written = Unused
    /\ master_file = Unused /\ comparison_file = Unused
    /\ staging = Unused /\ production = Unused /\ ignore_fields = {}
    /\ html_fields = Unused /\ output_file = Unused
    /\ diffs = Unused /\ report = NoReport("")

\* diff_additional_attributes returns, or raises
DiffAttributes ==
    /\ pc = "attr_input"
    /\ LET result == diff_additional_attributes(stg_val, prod_val,
                                                attr_separator, exclude_attrs)
       IN  IF result.error = ""
           THEN subdiffs' = result.value /\ pc' = "attr_done"
           ELSE subdiffs' = subdiffs /\ pc' = "attr_raised"
    /\ UNCHANGED <<key_field, content, delimiter, data, stg_val, prod_val, exclude_attrs,
                   master_file, comparison_file, staging, production,
                   ignore_fields, html_fields, output_file, diffs, report,
                   written>>

SpecAttr == InitAttr /\ [][DiffAttributes]_vars

(***************************************************************************)
(* The loader on its own: load_csv on a document.                          *)
(***************************************************************************)
InitLoad ==
    /\ pc = "load_input"
    /\ key_field = default_key_field
    /\ delimiter \in {",", ";"}
    /\ written \in SeqsUpTo(KeyTexts \X DocValues, MaxRows)
    /\ content = Document(written, delimiter)
    /\ data = Unused
    /\ stg_val = Unused /\ prod_val = Unused /\ exclude_attrs = {}
    /\ subdiffs = Unused
    /\ master_file = Unused /\ comparison_file = Unused
    /\ staging = Unused /\ production = Unused /\ ignore_fields = {}
    /\ html_fields = Unused /\ output_file = Unused
    /\ diffs = Unused /\ report = NoReport("")

\* load_csv returns, or raises
Load ==
    /\ pc = "load_input"
    /\ LET result == load_csv(content, delimiter, special_field, key_field)
       IN  IF result.error = ""
           THEN data' = result.value /\ pc' = "loaded"
           ELSE data' = data /\ pc' = "load_raised"
    /\ UNCHANGED <<key_field, content, delimiter, stg_val, prod_val, exclude_attrs,
                   subdiffs, master_file, comparison_file, staging, production,
                   ignore_fields, html_fields, output_file, diffs, report,
                   written>>

SpecLoad == InitLoad /\ [][Load]_vars

(***************************************************************************)
(* main: the two loads, compare_catalogs, then write_report.               *)
(***************************************************************************)
InitKeys ==
    /\ key_field = default_key_field
    /\ delimiter = ","
    /\ master_file \in KeyDocs(HeaderA) \cup KeyDocs(HeaderB)
    /\ comparison_file \in KeyDocs(HeaderA)
    /\ ignore_fields \in {{}, {c}}
    /\ exclude_attrs = {}
    /\ html_fields = <<>>

InitPlain ==
    /\ key_field = default_key_field
    /\ delimiter \in {",", ";"}
    /\ master_file \in PlainDocs(delimiter)
    /\ comparison_file \in PlainDocs(delimiter)
    /\ ignore_fields \in {{}, {c}}
    /\ exclude_attrs = {}
    /\ html_fields = <<c>>

InitAttrRows ==
    /\ key_field = default_key_field
    /\ delimiter = ","
    /\ master_file \in AttrDocs
    /\ comparison_file \in AttrDocs
    /\ \/ /\ ignore_fields = {}
          /\ exclude_attrs \in ExcludeSets
          /\ html_fields \in {<<>>, <<special_field>>}
       \/ /\ ignore_fields = {special_field}
          /\ exclude_attrs = {}
          /\ html_fields = <<>>

\* key_field names a column that write_report writes as well
InitKeyColumn ==
    /\ key_field \in {product_websites, differences}
    /\ delimiter = ","
    /\ master_file \in KeyColumnDocs(key_field)
    /\ comparison_file \in KeyColumnDocs(key_field)
    /\ ignore_fields \in {{}, {c}}
    /\ exclude_attrs = {}
    /\ html_fields = <<>>

Init ==
    /\ pc = "start"
    /\ (InitKeys \/ InitPlain \/ InitAttrRows \/ InitKeyColumn)
    /\ staging = Unused /\ production = Unused
    /\ output_file = Unused /\ diffs = Unused /\ report = NoReport("")
    /\ content = Unused /\ data = Unused /\ written = Unused
    /\ stg_val = Unused /\ prod_val = Unused /\ subdiffs = Unused

\* load_csv(master_file) returns, or raises and main ends there
LoadStaging ==
    /\ pc = "start"
    /\ LET result == load_csv(master_file, delimiter, special_field,
                              key_field)
       IN  IF result.error = ""
           THEN staging' = result.value /\ pc' = "staging_loaded"
           ELSE staging' = staging /\ pc' = "load_raised"
    /\ UNCHANGED <<key_field, content, delimiter, data, stg_val, prod_val, exclude_attrs,
                   subdiffs, master_file, comparison_file, production,
                   ignore_fields, html_fields, output_file, diffs, report,
                   written>>

\* load_csv(comparison_file) returns, or raises and main ends there
LoadProduction ==
    /\ pc = "staging_loaded"
    /\ LET result == load_csv(comparison_file, delimiter, special_field,
                              key_field)
       IN  IF result.error = ""
           THEN production' = result.value /\ pc' = "both_loaded"
           ELSE production' = production /\ pc' = "load_raised"
    /\ UNCHANGED <<key_field, content, delimiter, data, stg_val, prod_val, exclude_attrs,
                   subdiffs, master_file, comparison_file, staging,
                   ignore_fields, html_fields, output_file, diffs, report,
                   written>>

\* compare_catalogs returns, or raises and main ends there
Compare ==
    /\ pc = "both_loaded"
    /\ LET result == compare_catalogs(staging, production, ignore_fields,
                                      special_field, attr_separator,
                                      exclude_attrs, key_field)
       IN  IF result.error = ""
           THEN diffs' = result.value /\ pc' = "compared"
           ELSE diffs' = diffs /\ pc' = "compare_raised"
    /\ UNCHANGED <<key_field, content, delimiter, data, stg_val, prod_val, exclude_attrs,
                   subdiffs, master_file, comparison_file, staging, production,
                   ignore_fields, html_fields, output_file, report, written>>

\* write_report returns, or raises and main ends there
Report ==
    /\ pc = "compared"
    /\ \E path \in OutputFiles, cwd \in WorkingDirectories, stdout \in Stdouts :
           /\ output_file' = path
           /\ report' = write_report(diffs, html_fields, staging, path,
                                     key_field, cwd, stdout)
    /\ pc' = IF report'.error = "" THEN "reported" ELSE "report_raised"
    /\ UNCHANGED <<key_field, content, delimiter, data, stg_val, prod_val, exclude_attrs,
                   subdiffs, master_file, comparison_file, staging, production,
                   ignore_fields, html_fields, diffs, written>>

Next == LoadStaging \/ LoadProduction \/ Compare \/ Report

Spec == Init /\ [][Next]_vars

(***************************************************************************)
(* Properties.                                                             *)
(***************************************************************************)
\* compare_catalogs has returned: diffs is its list
Compared == pc \in {"compared", "reported", "report_raised"}

\* compare_catalogs has ended, with a list or with an exception
CompareEnded == Compared \/ pc = "compare_raised"

\* write_report has ended, with or without an exception
ReportEnded == pc \in {"reported", "report_raised"}

Range(s) == {s[i] : i \in 1..Len(s)}

Pos(s, x) == CHOOSE i \in 1..Len(s) : s[i] = x

InBoth(k) == DictHas(staging, k) /\ DictHas(production, k)

StgRow(k) == DictGet(staging, k, <<>>)

ProdRow(k) == DictGet(production, k, <<>>)

Trimmed(row, field) == strip(OrEmpty(DictGet(row, field, None)))

IsDifferent(e) ==
    e.type \in {"different_value", "different_value (additional_attribute)"}

\* C1: diff_additional_attributes reports a sub-key iff it is not excluded
\* and its trimmed values differ or it is in exactly one of the two decoded
\* Attribute Maps (so also a sub-key on one side only with an empty value).
C1_SymmetricDifference ==
    pc = "attr_done" =>
        LET stg_attrs ==
                parse_additional_attributes(stg_val, attr_separator).value
            prod_attrs ==
                parse_additional_attributes(prod_val, attr_separator).value
        IN  \A k \in Range(DictKeys(stg_attrs)) \cup Range(DictKeys(prod_attrs))
                     \cup Range(DictKeys(subdiffs)) :
                DictHas(subdiffs, k) <=>
                    /\ k \notin exclude_attrs
                    /\ \/ strip(DictGet(stg_attrs, k, <<>>))
                          # strip(DictGet(prod_attrs, k, <<>>))
                       \/ DictHas(stg_attrs, k) # DictHas(prod_attrs, k)

\* C2: after load_csv, every record written in the document (the last one
\* of its key) is found under its trimmed key, with exactly the header's
\* columns and the free-text value that was written.
C2_RoundTrip ==
    pc = "loaded" =>
        \A i \in 1..Len(written) :
            LET k == strip(written[i][1])
            IN  (k # <<>> /\ \A j \in (i + 1)..Len(written) :
                                 strip(written[j][1]) # k)
                => /\ DictHas(data, k)
                   /\ DictKeys(DictGet(data, k, <<>>))
                      = <<key_field, special_field>>
                   /\ DictGet(DictGet(data, k, <<>>), special_field, None)
                      = written[i][2]

\* C3: comparing a catalog against itself returns an empty sequence of
\* diff entries (so compare_catalogs returns, it does not raise).
C3_SelfCompareEmpty ==
    (CompareEnded /\ staging = production) =>
        (pc # "compare_raised" /\ diffs = <<>>)

\* C4: a key in exactly one catalog has exactly one entry:
\* missing_in_production (staging only) or extra_in_production (production
\* only), with empty field and values, in the output of compare_catalogs
\* (so there is an output).
C4_OneSidedKeys ==
    CompareEnded =>
        \A k \in Range(DictKeys(staging)) \cup Range(DictKeys(production)) :
            ~InBoth(k) =>
                /\ pc # "compare_raised"
                /\ Cardinality({i \in 1..Len(diffs) : diffs[i].sku = k}) = 1
                /\ \A i \in 1..Len(diffs) :
                       diffs[i].sku = k =>
                           diffs[i] = Entry(k,
                               IF DictHas(staging, k) THEN "missing_in_production"
                               ELSE "extra_in_production", <<>>, <<>>, <<>>)

\* C5: every key of the Catalog load_csv returns is a non-empty string.
C5_KeysNonEmpty ==
    pc = "loaded" => \A i \in 1..Len(data) : data[i][1] # <<>>

\* C6: for a key in both catalogs and a non-ignored plain column that only
\* one of the two records has, there is a different_value entry for that
\* column iff the trimmed value on the side that has it is non-empty.
C6_OneSidedColumn ==
    Compared =>
        \A k \in Range(DictKeys(staging)) :
            InBoth(k) =>
                \A col \in (Range(DictKeys(StgRow(k)))
                            \cup Range(DictKeys(ProdRow(k))))
                           \ (ignore_fields \cup {special_field, None}) :
                    DictHas(StgRow(k), col) # DictHas(ProdRow(k), col) =>
                        ((\E i \in 1..Len(diffs) :
                              /\ diffs[i].sku = k
                              /\ diffs[i].type = "different_value"
                              /\ diffs[i].field = col)
                         <=> (Trimmed(StgRow(k), col) # <<>>
                              \/ Trimmed(ProdRow(k), col) # <<>>))

\* C7: no entry has an ignored column as its field, nor, when the
\* free-text column is ignored, a field "<free-text column>:<sub-key>".
C7_IgnoredColumnsSilent ==
    Compared =>
        \A i \in 1..Len(diffs) :
            /\ diffs[i].field \notin ignore_fields
            /\ special_field \in ignore_fields =>
                   ~startswith(diffs[i].field, special_field \o <<":">>)

C7_Witness ==
    /\ pc = "compared"
    /\ \E k \in Range(DictKeys(staging)) :
           /\ InBoth(k)
           /\ \E f \in ignore_fields :
                  /\ Trimmed(StgRow(k), f) # Trimmed(ProdRow(k), f)
                  /\ f = special_field =>
                         diff_additional_attributes(
                             Trimmed(StgRow(k), f), Trimmed(ProdRow(k), f),
                             attr_separator, exclude_attrs).value # <<>>

\* C8: when write_report returns for a non-empty diff sequence, the file
\* holds one row per distinct key of the sequence, and the row of a key
\* holds the key, then the staging record's product_websites ("" for None,
\* and "" without a staging record), then that key's descriptions, in the
\* order of the sequence, joined with "; "; for an empty sequence no row
\* and no file is written.
DescriptionsOf(k) ==
    LET mine == SelectSeq(diffs, LAMBDA d : d.sku = k)
    IN  [i \in 1..Len(mine) |-> Describe(mine[i], html_fields)]

C8_ReportRows ==
    /\ (ReportEnded /\ diffs = <<>>) =>
           (~report.written /\ report.rows = <<>>)
    /\ (pc = "reported" /\ diffs # <<>>) =>
        /\ report.written
        /\ {report.rows[i][1] : i \in 1..Len(report.rows)}
           = {diffs[i].sku : i \in 1..Len(diffs)}
        /\ \A i, j \in 1..Len(report.rows) :
               report.rows[i][1] = report.rows[j][1] => i = j
        /\ \A i \in 1..Len(report.rows) :
               LET k == report.rows[i][1]
               IN  /\ report.rows[i][3] = join(<<";", " ">>, DescriptionsOf(k))
                   /\ report.rows[i][2]
                      = IF DictHas(staging, k)
                        THEN OrEmpty(DictGet(StgRow(k), product_websites,
                                             <<>>))
                        ELSE <<>>

\* C9: entries of staging keys come in staging order, each key's entries
\* in the staging record's column order; extra_in_production entries come
\* after them in production order; within one key's additional-attribute
\* entries the sub-keys follow the staging Attribute Map's order, then the
\* sub-keys only production has.
ColumnOf(e) ==
    IF e.type = "different_value (additional_attribute)" THEN special_field
    ELSE e.field

SubKeyOf(e) == Drop(e.field, Len(special_field) + 1)

SubKeyRank(k, sk) ==
    LET stg_attrs == DictKeys(parse_additional_attributes(
                         Trimmed(StgRow(k), special_field),
                         attr_separator).value)
        prod_attrs == DictKeys(parse_additional_attributes(
                          Trimmed(ProdRow(k), special_field),
                          attr_separator).value)
    IN  IF sk \in Range(stg_attrs) THEN Pos(stg_attrs, sk)
        ELSE Len(stg_attrs) + Pos(prod_attrs, sk)

IsExtra(e) == e.type = "extra_in_production"

C9_Order ==
    Compared =>
        \A i, j \in 1..Len(diffs) :
            i < j =>
                LET a == diffs[i]
                    b == diffs[j]
                IN  /\ IsExtra(a) => IsExtra(b)
                    /\ (IsExtra(a) /\ IsExtra(b)) =>
                           Pos(DictKeys(production), a.sku)
                           < Pos(DictKeys(production), b.sku)
                    /\ (~IsExtra(a) /\ ~IsExtra(b)) =>
                           Pos(DictKeys(staging), a.sku)
                           <= Pos(DictKeys(staging), b.sku)
                    /\ (a.sku = b.sku /\ IsDifferent(a) /\ IsDifferent(b)) =>
                           /\ Pos(DictKeys(StgRow(a.sku)), ColumnOf(a))
                              <= Pos(DictKeys(StgRow(a.sku)), ColumnOf(b))
                           /\ (ColumnOf(a) = special_field
                               /\ ColumnOf(b) = special_field) =>
                                  SubKeyRank(a.sku, SubKeyOf(a))
                                  < SubKeyRank(a.sku, SubKeyOf(b))

C9_Witness ==
    /\ pc = "compared"
    /\ \E i \in 1..Len(diffs) :
           /\ i + 3 <= Len(diffs)
           /\ diffs[i].type = "missing_in_production"
           /\ diffs[i + 1].type = "different_value (additional_attribute)"
           /\ diffs[i + 2].type = "different_value (additional_attribute)"
           /\ diffs[i + 1].production_value = <<>>
           /\ diffs[i + 2].staging_value = <<>>
           /\ diffs[i + 3].type = "different_value"
           /\ IsExtra(diffs[Len(diffs)])

\* C10: every different_value entry, plain or additional-attribute, has a
\* staging value and a production value that differ once trimmed.
C10_EntriesDiffer ==
    Compared =>
        \A i \in 1..Len(diffs) :
            IsDifferent(diffs[i]) =>
                strip(diffs[i].staging_value) # strip(diffs[i].production_value)

====
